---- MODULE Spec2Model ----
(***************************************************************************)
(* Content-addressable artifact store of the Agentic README service:       *)
(* storeContent / retrieveContent / generateContentHash of the storage     *)
(* manager, run against a Google Cloud Storage backend (buckets that hold  *)
(* objects).  Calls are asynchronous: every await on a backend request is  *)
(* a point where other calls, and the backend itself, may act.             *)
(***************************************************************************)
EXTENDS Integers, Sequences, FiniteSets, TLC

(***************************************************************************)
(* SHA-256 as crypto.createHash('sha256') computes it (FIPS 180-4).  A     *)
(* 32-bit word is a pair <<hi, lo>> of 16-bit halves, so that no           *)
(* intermediate value leaves the range of the model checker's integers.    *)
(***************************************************************************)
Pow2 == <<1, 2, 4, 8, 16, 32, 64, 128, 256, 512, 1024, 2048, 4096, 8192,
          16384, 32768, 65536>>

Half == Pow2[17]

\* F applied to the value of e, with e evaluated once
Bind(e, F(_)) == CHOOSE r \in {F(v) : v \in {e}} : TRUE

RECURSIVE Xor16(_, _)
Xor16(a, b) ==
  IF a = 0 THEN b
  ELSE IF b = 0 THEN a
  ELSE ((a + b) % 2) + 2 * Xor16(a \div 2, b \div 2)

RECURSIVE And16(_, _)
And16(a, b) ==
  IF a = 0 \/ b = 0 THEN 0
  ELSE ((a % 2) * (b % 2)) + 2 * And16(a \div 2, b \div 2)

WXor(x, y) ==
  Bind(<<x, y>>,
       LAMBDA p : <<Xor16(p[1][1], p[2][1]), Xor16(p[1][2], p[2][2])>>)

WAnd(x, y) ==
  Bind(<<x, y>>,
       LAMBDA p : <<And16(p[1][1], p[2][1]), And16(p[1][2], p[2][2])>>)

WNot(x) == Bind(x, LAMBDA p : <<(Half - 1) - p[1], (Half - 1) - p[2]>>)

\* addition modulo 2^32: the carry of the low halves goes to the high halves
WAdd(x, y) ==
  Bind(<<x, y>>,
       LAMBDA p : << (p[1][1] + p[2][1] + ((p[1][2] + p[2][2]) \div Half))
                       % Half,
                     (p[1][2] + p[2][2]) % Half >>)

\* rotate right by m, 0 < m < 16
RotR16(s, m) ==
  << (s[1] \div Pow2[m + 1]) + (s[2] % Pow2[m + 1]) * Pow2[16 - m + 1],
     (s[2] \div Pow2[m + 1]) + (s[1] % Pow2[m + 1]) * Pow2[16 - m + 1] >>

\* rotate right by n, 0 < n < 32
RotR(x, n) ==
  Bind(x, LAMBDA p :
    IF n = 16 THEN <<p[2], p[1]>>
    ELSE IF n > 16 THEN RotR16(<<p[2], p[1]>>, n - 16)
    ELSE RotR16(p, n))

\* shift right by n, 0 < n < 16
ShR(x, n) ==
  Bind(x, LAMBDA p :
    << p[1] \div Pow2[n + 1],
       (p[2] \div Pow2[n + 1]) + (p[1] % Pow2[n + 1]) * Pow2[16 - n + 1] >>)

Ch(x, y, z) ==
  Bind(<<x, y, z>>,
       LAMBDA p : WXor(WAnd(p[1], p[2]), WAnd(WNot(p[1]), p[3])))

Maj(x, y, z) ==
  Bind(<<x, y, z>>,
       LAMBDA p : WXor(WXor(WAnd(p[1], p[2]), WAnd(p[1], p[3])),
                       WAnd(p[2], p[3])))

BigSigma0(x) ==
  Bind(x, LAMBDA p : WXor(WXor(RotR(p, 2), RotR(p, 13)), RotR(p, 22)))

BigSigma1(x) ==
  Bind(x, LAMBDA p : WXor(WXor(RotR(p, 6), RotR(p, 11)), RotR(p, 25)))

SmallSigma0(x) ==
  Bind(x, LAMBDA p : WXor(WXor(RotR(p, 7), RotR(p, 18)), ShR(p, 3)))

SmallSigma1(x) ==
  Bind(x, LAMBDA p : WXor(WXor(RotR(p, 17), RotR(p, 19)), ShR(p, 10)))

SHA256_H0 ==
  <<
    <<27145, 58983>>, <<47975, 44677>>, <<15470, 62322>>, <<42319, 62778>>,
    <<20750, 21119>>, <<39685, 26764>>, <<8067, 55723>>, <<23520, 52505>> >>

SHA256_K ==
  <<
    <<17034, 12184>>, <<28983, 17553>>, <<46528, 64463>>, <<59829, 56229>>,
    <<14678, 49755>>, <<23025, 4593>>, <<37439, 33444>>, <<43804, 24277>>,
    <<55303, 43672>>, <<4739, 23297>>, <<9265, 34238>>, <<21772, 32195>>,
    <<29374, 23924>>, <<32990, 45566>>, <<39900, 1703>>, <<49563, 61812>>,
    <<58523, 27073>>, <<61374, 18310>>, <<4033, 40390>>, <<9228, 41420>>,
    <<11753, 11375>>, <<19060, 33962>>, <<23728, 43484>>, <<30457, 35034>>,
    <<38974, 20818>>, <<43057, 50797>>, <<45059, 10184>>, <<48985, 32711>>,
    <<50912, 3059>>, <<54695, 37191>>, <<1738, 25425>>, <<5161, 10599>>,
    <<10167, 2693>>, <<11803, 8504>>, <<19756, 28156>>, <<21304, 3347>>,
    <<25866, 29524>>, <<30314, 2747>>, <<33218, 51502>>, <<37490, 11397>>,
    <<41663, 59553>>, <<43034, 26187>>, <<49739, 35696>>, <<51052, 20899>>,
    <<53650, 59417>>, <<54937, 1572>>, <<62478, 13701>>, <<4202, 41072>>,
    <<6564, 49430>>, <<7735, 27656>>, <<10056, 30540>>, <<13488, 48309>>,
    <<14620, 3251>>, <<20184, 43594>>, <<23452, 51791>>, <<26670, 28659>>,
    <<29839, 33518>>, <<30885, 25455>>, <<33992, 30740>>, <<36039, 520>>,
    <<37054, 65530>>, <<42064, 27883>>, <<48889, 41975>>, <<50801, 30962>> >>

\* (variant: the 1 bit that ends the message is left out of the padding)
Sha256PadZeroBit(bytes) ==
  Bind(bytes, LAMBDA m :
    m \o <<0>> \o [i \in 1..((119 - (Len(m) % 64)) % 64) |-> 0]
      \o <<0, 0, 0, 0>>
      \o << ((8 * Len(m)) \div 16777216) % 256, ((8 * Len(m)) \div 65536) % 256,
            ((8 * Len(m)) \div 256) % 256, (8 * Len(m)) % 256 >>)

\* the message with the 1 bit, the zero padding and the 64-bit bit length
Sha256Pad(bytes) ==
  Bind(bytes, LAMBDA m :
    m \o <<128>> \o [i \in 1..((119 - (Len(m) % 64)) % 64) |-> 0]
      \o <<0, 0, 0, 0>>
      \o << ((8 * Len(m)) \div 16777216) % 256, ((8 * Len(m)) \div 65536) % 256,
            ((8 * Len(m)) \div 256) % 256, (8 * Len(m)) % 256 >>)

\* big-endian word i (from 1) of block k (from 0) of a padded message
BlockWord(padded, k, i) ==
  << padded[64 * k + 4 * (i - 1) + 1] * 256 + padded[64 * k + 4 * (i - 1) + 2],
     padded[64 * k + 4 * (i - 1) + 3] * 256 + padded[64 * k + 4 * (i - 1) + 4] >>

\* the 16 words of block k
BlockWords(padded, k) ==
  << BlockWord(padded, k, 1), BlockWord(padded, k, 2), BlockWord(padded, k, 3),
     BlockWord(padded, k, 4), BlockWord(padded, k, 5), BlockWord(padded, k, 6),
     BlockWord(padded, k, 7), BlockWord(padded, k, 8), BlockWord(padded, k, 9),
     BlockWord(padded, k, 10), BlockWord(padded, k, 11),
     BlockWord(padded, k, 12), BlockWord(padded, k, 13),
     BlockWord(padded, k, 14), BlockWord(padded, k, 15),
     BlockWord(padded, k, 16) >>

\* the message schedule: word t from words t-2, t-7, t-15 and t-16
Extend(w) ==
  Bind(w, LAMBDA v :
    Append(v, WAdd(WAdd(SmallSigma1(v[Len(v) - 1]), v[Len(v) - 6]),
                   WAdd(SmallSigma0(v[Len(v) - 14]), v[Len(v) - 15]))))

\* w extended by n >= 1 words (halving keeps the evaluation shallow)
RECURSIVE ExtendBy(_, _)
ExtendBy(w, n) ==
  IF n = 1 THEN Extend(w)
  ELSE Bind(ExtendBy(w, n \div 2), LAMBDA v : ExtendBy(v, n - (n \div 2)))

\* the 64 words of the schedule of a block of 16 words
Schedule(words) == ExtendBy(words, 48)

T1(s, k, w) ==
  WAdd(WAdd(WAdd(s[8], BigSigma1(s[5])), Ch(s[5], s[6], s[7])), WAdd(k, w))

T2(s) == WAdd(BigSigma0(s[1]), Maj(s[1], s[2], s[3]))

\* round t on the working variables s = <<a, b, c, d, e, f, g, h>>
Round(s, w, t) ==
  Bind(<<s, w[t]>>, LAMBDA v :
    Bind(<<T1(v[1], SHA256_K[t], v[2]), T2(v[1])>>, LAMBDA T :
      << WAdd(T[1], T[2]), v[1][1], v[1][2], v[1][3],
         WAdd(v[1][4], T[1]), v[1][5], v[1][6], v[1][7] >>))

\* the working variables after rounds lo..hi
RECURSIVE Rounds(_, _, _, _)
Rounds(s, w, lo, hi) ==
  IF lo = hi THEN Round(s, w, lo)
  ELSE Bind(Rounds(s, w, lo, (lo + hi) \div 2),
            LAMBDA v : Rounds(v, w, ((lo + hi) \div 2) + 1, hi))

Compress(h, words) ==
  Bind(<<h, Schedule(words)>>, LAMBDA p :
    Bind(Rounds(p[1], p[2], 1, 64), LAMBDA s :
      << WAdd(p[1][1], s[1]), WAdd(p[1][2], s[2]), WAdd(p[1][3], s[3]),
         WAdd(p[1][4], s[4]), WAdd(p[1][5], s[5]), WAdd(p[1][6], s[6]),
         WAdd(p[1][7], s[7]), WAdd(p[1][8], s[8]) >>))

RECURSIVE Blocks(_, _, _)
Blocks(h, padded, k) ==
  IF 64 * k >= Len(padded) THEN h
  ELSE Blocks(Compress(h, BlockWords(padded, k)), padded, k + 1)

Sha256(bytes) ==
  Bind(Sha256Pad(bytes), LAMBDA padded : Blocks(SHA256_H0, padded, 0))

\* hash.digest('hex'): lower-case hexadecimal, two digits per byte
HexDigit == <<"0", "1", "2", "3", "4", "5", "6", "7",
              "8", "9", "a", "b", "c", "d", "e", "f">>

Hex16(n) ==
  HexDigit[(n \div 4096) + 1] \o HexDigit[((n \div 256) % 16) + 1]
    \o HexDigit[((n \div 16) % 16) + 1] \o HexDigit[(n % 16) + 1]

HexWord(x) == Hex16(x[1]) \o Hex16(x[2])

HexWords(ws) ==
  Bind(ws, LAMBDA v :
    HexWord(v[1]) \o HexWord(v[2]) \o HexWord(v[3]) \o HexWord(v[4])
      \o HexWord(v[5]) \o HexWord(v[6]) \o HexWord(v[7]) \o HexWord(v[8]))

Sha256Hex(bytes) == HexWords(Sha256(bytes))

(***************************************************************************)
(* Content: string | Buffer.  A string is its sequence of UTF-16 code      *)
(* units, a Buffer its sequence of bytes.  Buffer.from(string) encodes the *)
(* string as UTF-8.                                                        *)
(***************************************************************************)
String(units) == [type |-> "string", data |-> units]

Buffer(bytes) == [type |-> "Buffer", data |-> bytes]

IsHighSurrogate(c) == c >= 55296 /\ c <= 56319

IsLowSurrogate(c) == c >= 56320 /\ c <= 57343

\* the bytes of the code unit at position k of u: a high surrogate followed
\* by a low one gives the four bytes of the code point and the low one
\* nothing more; a surrogate on its own gives EF BF BD
Utf8Unit(u, k) ==
  IF u[k] < 128 THEN <<u[k]>>
  ELSE IF u[k] < 2048 THEN <<192 + (u[k] \div 64), 128 + (u[k] % 64)>>
  ELSE IF IsHighSurrogate(u[k]) /\ k < Len(u) /\ IsLowSurrogate(u[k + 1])
    THEN LET cp == 65536 + (u[k] - 55296) * 1024 + (u[k + 1] - 56320)
         IN  << 240 + (cp \div 262144), 128 + ((cp \div 4096) % 64),
                128 + ((cp \div 64) % 64), 128 + (cp % 64) >>
  ELSE IF IsLowSurrogate(u[k]) /\ k > 1 /\ IsHighSurrogate(u[k - 1])
    THEN <<>>
  ELSE IF IsHighSurrogate(u[k]) \/ IsLowSurrogate(u[k])
    THEN <<239, 191, 189>>
  ELSE << 224 + (u[k] \div 4096), 128 + ((u[k] \div 64) % 64),
          128 + (u[k] % 64) >>

\* the bytes of the code units lo..hi of u (halving keeps the evaluation
\* shallow)
RECURSIVE Utf8Range(_, _, _)
Utf8Range(u, lo, hi) ==
  IF lo > hi THEN <<>>
  ELSE IF lo = hi THEN Utf8Unit(u, lo)
  ELSE Utf8Range(u, lo, (lo + hi) \div 2)
         \o Utf8Range(u, ((lo + hi) \div 2) + 1, hi)

Utf8Encode(units) == Bind(units, LAMBDA u : Utf8Range(u, 1, Len(u)))

\* typeof content === 'string' ? Buffer.from(content) : content
ToBuffer(content) ==
  IF content.type = "string" THEN Buffer(Utf8Encode(content.data)) ELSE content

\* (variant: a string is hashed as its code units, one byte each, not as
\* the Buffer storeContent makes of it)
generateContentHashOfCodeUnits(content) ==
  Sha256Hex([k \in 1..Len(content.data) |-> content.data[k] % 256])

\* (variant: the hash object is never updated with the content)
generateContentHashNoUpdate(content) == Sha256Hex(<<>>)

\* lines 122-126: createHash('sha256'), update(content as a Buffer),
\* digest('hex')
generateContentHash(content) == Sha256Hex(ToBuffer(content).data)

(***************************************************************************)
(* The inputs of the model.                                                *)
(***************************************************************************)
GOOGLE_CLOUD_PROJECT == ""

DEFAULT_BUCKET_NAME ==
  IF GOOGLE_CLOUD_PROJECT # "" THEN GOOGLE_CLOUD_PROJECT \o "-cas"
  ELSE "agentic-readme-cas"

\* the strings "# Hello\n" (8 bytes) and "é" (one character, 2 bytes)
Hello == String(<<35, 32, 72, 101, 108, 108, 111, 10>>)

EAcute == String(<<233>>)

Contents == {Hello, EAcute}

Extensions == {"md", "json"}

ContentTypes == {"text/markdown"}

BucketNames == {DEFAULT_BUCKET_NAME}

\* the artifacts put and asked for, as <<content, extension>>: one content
\* under two extensions, and two contents under one extension
Artifacts == {<<Hello, "md">>, <<Hello, "json">>, <<EAcute, "md">>}

\* the empty string, and "é" given as the Buffer of its two UTF-8 bytes
Empty == String(<<>>)

EAcuteBuffer == Buffer(<<195, 169>>)

\* artifacts put with either of two content types: the empty payload, and
\* one payload given as a string and as a Buffer
PutArtifacts == {<<Empty, "txt">>, <<EAcute, "md">>, <<EAcuteBuffer, "md">>}

PutContentTypes == {"text/markdown", "text/plain"}

PutHashInputs ==
  {a[1] : a \in PutArtifacts} \cup {ToBuffer(a[1]) : a \in PutArtifacts}

\* calls in one behaviour
NumCalls == 2

\* backend requests that fail in one behaviour
MaxFaults == 1

\* objects the backend deletes in one behaviour
MaxDeletes == 1

CallIds == 1..NumCalls

\* every content the calls of storeContent hash
HashInputs == Contents \cup {ToBuffer(c) : c \in Contents}

\* the contents generateContentHash is called with on its own: the strings
\* over "a" and "é" and the buffers over 0x00 and 0x61, of at most MaxLen
\* units or bytes, and the buffers that hold those strings
MaxLen == 2

MaxHashCalls == 2

SeqsUpTo(alphabet, n) == UNION {[1..k -> alphabet] : k \in 0..n}

HashContents ==
  LET strings == {String(u) : u \in SeqsUpTo({97, 233}, MaxLen)}
      buffers == {Buffer(b) : b \in SeqsUpTo({0, 97}, MaxLen)}
  IN  strings \cup buffers \cup {ToBuffer(c) : c \in strings}

StorageInfo(bucket, path, filename, contentHash, contentType, size) ==
  [bucket |-> bucket, path |-> path, filename |-> filename,
   contentHash |-> contentHash, contentType |-> contentType, size |-> size]

NoInfo == StorageInfo("", "", "", "", "", 0)

NoError == [name |-> "", code |-> 0, message |-> "", step |-> ""]

ObjectKey(bucketName, fullPath) == <<bucketName, fullPath>>

VARIABLES
  digest,    \* generateContentHash, tabulated over HashInputs; never changes
  buckets,   \* the buckets that exist in the backend
  objects,   \* the objects of the backend, by <<bucket, name>>
  calls,     \* the calls of storeContent and retrieveContent, by call id
  faults,    \* backend requests that failed so far
  deletes,   \* objects the backend deleted so far
  hashCalls, \* the calls of generateContentHash on its own, in order
  wrappers,  \* by call id: the wrapper that made the call, and its arguments
  rendered,  \* what ReadmeDisplay rendered, in order
  save,      \* the calls of saveAnalysisResults, by the order they began in
  database   \* the records of the database

vars ==
  <<digest, buckets, objects, calls, faults, deletes, hashCalls, wrappers,
    rendered, save, database>>

\* a call that was made directly, not by storeReadme, storeAnalysisResults
\* or storeLogOutput
NoWrapper ==
  [name |-> "", argument |-> <<>>, packageName |-> "", packageVersion |-> ""]

\* the tables of the database the module writes
EmptyDatabase ==
  [package |-> {}, packageVersion |-> {}, readme |-> {}, verification |-> {}]

\* calls of saveAnalysisResults in one behaviour
MaxSaves == 2

SaveIds == 1..MaxSaves

\* a call of saveAnalysisResults that has not begun. readmeStorageInfo is
\* NoInfo for undefined; call is the put awaited; puts (the puts that
\* returned, in order) and wrote (the writes to the database the call has
\* made) are history
NoSave ==
  [pc |-> "idle", packageName |-> "", packageVersion |-> "",
   analysisResult |-> <<>>, logOutput |-> <<>>,
   readmeStorageInfo |-> NoInfo, resultsStorageInfo |-> NoInfo,
   logStorageInfo |-> NoInfo, call |-> 0, pkg |-> 0,
   packageVersionRecord |-> 0, error |-> NoError,
   puts |-> <<>>, wrote |-> 0]

IdleCall ==
  [op |-> "idle", pc |-> "idle",
   content |-> Buffer(<<>>), extension |-> "", contentType |-> "",
   bucketName |-> "", contentHash |-> "", filename |-> "",
   storageInfo |-> NoInfo,
   info |-> NoInfo, data |-> <<>>, error |-> NoError,
   preds |-> {}, created |-> FALSE, added |-> FALSE, epoch |-> 0,
   requests |-> <<>>]

Finished(c) == c.pc \in {"returned", "thrown"}

Started == Cardinality({i \in DOMAIN calls : calls[i].op # "idle"})

\* the fields of a call that are history, not state of the program: preds
\* (the calls that had finished when it began), created (its bucket.create()
\* succeeded), added (its file.save() found no object under the name),
\* epoch (the number of deletions when it last moved) and requests (the
\* backend requests it has sent, in order)
InitStore ==
  /\ buckets \in SUBSET BucketNames
  /\ objects = <<>>
  /\ calls = [i \in CallIds |-> IdleCall]
  /\ faults = 0
  /\ deletes = 0
  /\ hashCalls = <<>>
  /\ wrappers = [i \in CallIds |-> NoWrapper]
  /\ rendered = <<>>
  /\ save = [s \in SaveIds |-> NoSave]
  /\ database = EmptyDatabase

Init ==
  /\ digest = [c \in HashInputs |-> generateContentHash(c)]
  /\ InitStore

(***************************************************************************)
(* A request to the backend either is answered or fails (network, quota,   *)
(* permissions); a failed request makes the await throw, and neither       *)
(* function catches anything.                                              *)
(***************************************************************************)
CanFail == faults < MaxFaults

RequestError(step) ==
  [name |-> "ApiError", code |-> 503, message |-> "backend unavailable",
   step |-> step]

\* the awaits of lines 52, 56, 61, 95 and 101: the call has sent a request
\* and goes on when the backend answers
Awaiting(c) ==
  c.pc \in {"bucket.exists", "bucket.create", "file.save",
            "file.exists", "file.download"}

(***************************************************************************)
(* storeContent                                                            *)
(***************************************************************************)
\* (variant: the name is fixed per extension, the hash is not part of it)
FilenameByExtension(contentHash, extension) == "latest." \o extension

\* (variant: the extension is left out of the name)
FilenameWithoutExtension(contentHash, extension) == contentHash

\* line 44: `${contentHash}.${extension}`
Filename(contentHash, extension) == contentHash \o "." \o extension

\* (variant: the bucket is created whatever bucket.exists() answered)
AlwaysCreate(exists) == TRUE

\* line 54: if (!exists[0])
ShouldCreate(exists) == ~exists

\* lines 37-52: the hash and the names, then bucket.exists() is sent and the
\* call waits for the answer
StoreContentCall(i, content, extension, contentType, bucketName) ==
  /\ calls[i].op = "idle"
  /\ i = Started + 1
  /\ LET contentBuffer == ToBuffer(content)
         contentHash   == digest[contentBuffer]
         filename      == Filename(contentHash, extension)
     IN  calls' = [calls EXCEPT ![i] =
           [@ EXCEPT
              !.op = "storeContent", !.pc = "bucket.exists",
              !.content = content, !.extension = extension,
              !.contentType = contentType, !.bucketName = bucketName,
              !.contentHash = contentHash, !.filename = filename,
              !.preds = {j \in DOMAIN calls : Finished(calls[j])},
              !.epoch = deletes,
              !.requests = <<"bucket.exists">>]]
  /\ UNCHANGED <<digest, rendered, database, hashCalls, buckets, objects,
                 faults, deletes>>

\* lines 52-54: bucket.exists() answers with what the backend holds then; the
\* bucket is created only when the answer was false
BucketExistsDone(i) ==
  /\ calls[i].op = "storeContent" /\ calls[i].pc = "bucket.exists"
  /\ LET exists == calls[i].bucketName \in buckets
         next   == IF ShouldCreate(exists) THEN "bucket.create"
                   ELSE "file.save"
     IN  calls' = [calls EXCEPT ![i] =
           [@ EXCEPT !.pc = next, !.epoch = deletes,
                     !.requests = Append(@, next)]]
  /\ UNCHANGED <<digest, rendered, save, database, wrappers, hashCalls,
                 buckets, objects, faults, deletes>>

\* (variant: bucket.create() is not awaited; the call goes on to file.save()
\* before the bucket is there)
BucketCreateNotAwaited(i) ==
  /\ calls[i].op = "storeContent" /\ calls[i].pc = "bucket.create"
  /\ calls' = [calls EXCEPT ![i] =
       [@ EXCEPT !.pc = "file.save", !.created = TRUE,
                 !.requests = Append(@, "file.save")]]
  /\ UNCHANGED <<digest, rendered, save, database, wrappers, hashCalls,
                 buckets, objects, faults, deletes>>

\* line 56: bucket.create(); the backend refuses to create a bucket that exists
BucketCreateDone(i) ==
  /\ calls[i].op = "storeContent" /\ calls[i].pc = "bucket.create"
  /\ IF calls[i].bucketName \in buckets
       THEN /\ calls' = [calls EXCEPT ![i] =
                 [@ EXCEPT !.pc = "thrown", !.epoch = deletes,
                           !.error = [name |-> "ApiError", code |-> 409,
                                      message |-> "bucket already exists",
                                      step |-> "bucket.create"]]]
            /\ UNCHANGED buckets
       ELSE /\ buckets' = buckets \cup {calls[i].bucketName}
            /\ calls' = [calls EXCEPT ![i] =
                 [@ EXCEPT !.pc = "file.save", !.created = TRUE,
                           !.requests = Append(@, "file.save")]]
  /\ UNCHANGED <<digest, rendered, save, database, wrappers, hashCalls,
                 objects, faults, deletes>>

\* (variant: content.length, the number of UTF-16 code units of a string)
SizeInCodeUnits(content) == Len(content.data)

\* line 76: contentBuffer.length, the number of bytes
Size(content) == Len(ToBuffer(content).data)

\* (variant: the last byte of the buffer is not written)
SavedObjectTruncated(c) ==
  [data |-> SubSeq(ToBuffer(c.content).data, 1,
                   Len(ToBuffer(c.content).data) - 1),
   contentType |-> c.contentType,
   metadata |-> [contentHash |-> c.contentHash,
                 originalExtension |-> c.extension]]

\* the object file.save(contentBuffer, {contentType, metadata}) leaves
SavedObject(c) ==
  [data |-> ToBuffer(c.content).data, contentType |-> c.contentType,
   metadata |-> [contentHash |-> c.contentHash,
                 originalExtension |-> c.extension]]

\* (variant: a name that is taken is not written again)
FileSaveDoneSkipExisting(i) ==
  /\ calls[i].op = "storeContent" /\ calls[i].pc = "file.save"
  /\ LET c        == calls[i]
         path     == "cas"
         fullPath == path \o "/" \o c.filename
         key      == ObjectKey(c.bucketName, fullPath)
     IN  /\ objects' = IF key \in DOMAIN objects THEN objects
                       ELSE [k \in DOMAIN objects \cup {key} |->
                               IF k = key THEN SavedObject(c) ELSE objects[k]]
         /\ calls' = [calls EXCEPT ![i] =
              [@ EXCEPT !.pc = "returned", !.epoch = deletes,
                        !.added = key \notin DOMAIN objects,
                        !.info = StorageInfo(c.bucketName, path, c.filename,
                                             c.contentHash, c.contentType,
                                             Size(c.content))]]
  /\ UNCHANGED <<digest, rendered, save, database, wrappers, hashCalls,
                 buckets, faults, deletes>>

\* (variant: the write also goes under a name that does not depend on the
\* bytes)
FileSaveDoneWithLatest(i) ==
  /\ calls[i].op = "storeContent" /\ calls[i].pc = "file.save"
  /\ LET c        == calls[i]
         path     == "cas"
         fullPath == path \o "/" \o c.filename
         key      == ObjectKey(c.bucketName, fullPath)
         latest   == ObjectKey(c.bucketName, path \o "/latest." \o c.extension)
     IN  /\ objects' = [k \in DOMAIN objects \cup {key, latest} |->
                          IF k \in {key, latest} THEN SavedObject(c)
                          ELSE objects[k]]
         /\ calls' = [calls EXCEPT ![i] =
              [@ EXCEPT !.pc = "returned", !.epoch = deletes,
                        !.added = key \notin DOMAIN objects,
                        !.info = StorageInfo(c.bucketName, path, c.filename,
                                             c.contentHash, c.contentType,
                                             Size(c.content))]]
  /\ UNCHANGED <<digest, rendered, save, database, wrappers, hashCalls,
                 buckets, faults, deletes>>

\* (variant: the write replaces what the store held)
FileSaveDoneReplacing(i) ==
  /\ calls[i].op = "storeContent" /\ calls[i].pc = "file.save"
  /\ LET c        == calls[i]
         path     == "cas"
         fullPath == path \o "/" \o c.filename
         key      == ObjectKey(c.bucketName, fullPath)
     IN  /\ objects' = [k \in {key} |-> SavedObject(c)]
         /\ calls' = [calls EXCEPT ![i] =
              [@ EXCEPT !.pc = "returned", !.epoch = deletes,
                        !.added = key \notin DOMAIN objects,
                        !.info = StorageInfo(c.bucketName, path, c.filename,
                                             c.contentHash, c.contentType,
                                             Size(c.content))]]
  /\ UNCHANGED <<digest, rendered, save, database, wrappers, hashCalls,
                 buckets, faults, deletes>>

\* (variant: the content type is part of the path of the object)
FileSaveDoneTypedPath(i) ==
  /\ calls[i].op = "storeContent" /\ calls[i].pc = "file.save"
  /\ LET c        == calls[i]
         path     == "cas/" \o c.contentType
         fullPath == path \o "/" \o c.filename
         key      == ObjectKey(c.bucketName, fullPath)
     IN  /\ objects' = [k \in DOMAIN objects \cup {key} |->
                          IF k = key THEN SavedObject(c) ELSE objects[k]]
         /\ calls' = [calls EXCEPT ![i] =
              [@ EXCEPT !.pc = "returned", !.epoch = deletes,
                        !.added = key \notin DOMAIN objects,
                        !.info = StorageInfo(c.bucketName, path, c.filename,
                                             c.contentHash, c.contentType,
                                             Size(c.content))]]
  /\ UNCHANGED <<digest, rendered, save, database, wrappers, hashCalls,
                 buckets, faults, deletes>>

\* (variant: a name that is taken is not written again; the bytes go under
\* a second name, which is the one returned)
FileSaveDoneVersioned(i) ==
  /\ calls[i].op = "storeContent" /\ calls[i].pc = "file.save"
  /\ LET c        == calls[i]
         taken    == ObjectKey(c.bucketName, "cas/" \o c.filename)
                       \in DOMAIN objects
         filename == IF taken THEN c.filename \o ".1" ELSE c.filename
         key      == ObjectKey(c.bucketName, "cas/" \o filename)
     IN  /\ objects' = [k \in DOMAIN objects \cup {key} |->
                          IF k = key THEN SavedObject(c) ELSE objects[k]]
         /\ calls' = [calls EXCEPT ![i] =
              [@ EXCEPT !.pc = "returned", !.epoch = deletes,
                        !.added = key \notin DOMAIN objects,
                        !.info = StorageInfo(c.bucketName, "cas", filename,
                                             c.contentHash, c.contentType,
                                             Size(c.content))]]
  /\ UNCHANGED <<digest, rendered, save, database, wrappers, hashCalls,
                 buckets, faults, deletes>>

\* lines 60-77: file.save() completes and the storage information is returned
FileSaveDone(i) ==
  /\ calls[i].op = "storeContent" /\ calls[i].pc = "file.save"
  /\ LET c        == calls[i]
         path     == "cas"
         fullPath == path \o "/" \o c.filename
         key      == ObjectKey(c.bucketName, fullPath)
     IN  /\ objects' = [k \in DOMAIN objects \cup {key} |->
                          IF k = key THEN SavedObject(c) ELSE objects[k]]
         /\ calls' = [calls EXCEPT ![i] =
              [@ EXCEPT !.pc = "returned", !.epoch = deletes,
                        !.added = key \notin DOMAIN objects,
                        !.info = StorageInfo(c.bucketName, path, c.filename,
                                             c.contentHash, c.contentType,
                                             Size(c.content))]]
  /\ UNCHANGED <<digest, rendered, save, database, wrappers, hashCalls,
                 buckets, faults, deletes>>

storeContent ==
  \E i \in CallIds :
    \/ \E a \in Artifacts, contentType \in ContentTypes,
          bucketName \in BucketNames :
         /\ StoreContentCall(i, a[1], a[2], contentType, bucketName)
         /\ UNCHANGED <<wrappers, save>>
    \/ BucketExistsDone(i)
    \/ BucketCreateDone(i)
    \/ FileSaveDone(i)

(***************************************************************************)
(* retrieveContent                                                         *)
(***************************************************************************)
\* the storage information storeContent returns for these arguments
InfoFor(content, extension, contentType, bucketName) ==
  LET contentBuffer == ToBuffer(content)
      contentHash   == digest[contentBuffer]
  IN  StorageInfo(bucketName, "cas", Filename(contentHash, extension),
                  contentHash, contentType, Size(content))

\* well-formed storage information: what was or could be returned
InfoInputs ==
  {InfoFor(a[1], a[2], t, b) : a \in Artifacts, t \in ContentTypes,
                               b \in BucketNames}

\* (variant: the name is rebuilt from contentHash, not taken from filename)
FullPathFromHash(storageInfo) ==
  storageInfo.path \o "/" \o storageInfo.contentHash \o ".md"

\* line 88: `${path}/${filename}`
FullPath(storageInfo) == storageInfo.path \o "/" \o storageInfo.filename

\* (variant: the object is looked for in the default bucket)
InfoKeyInDefault(storageInfo) ==
  ObjectKey(DEFAULT_BUCKET_NAME, FullPath(storageInfo))

InfoKey(storageInfo) == ObjectKey(storageInfo.bucket, FullPath(storageInfo))

\* (variant: the bucket is created when it is not there, as storeContent
\* does)
RetrieveContentCallCreating(i, storageInfo) ==
  /\ calls[i].op = "idle"
  /\ i = Started + 1
  /\ calls' = [calls EXCEPT ![i] =
       [@ EXCEPT
          !.op = "retrieveContent", !.pc = "file.exists",
          !.storageInfo = storageInfo,
          !.preds = {j \in DOMAIN calls : Finished(calls[j])},
          !.epoch = deletes,
          !.requests = <<"file.exists">>]]
  /\ buckets' = buckets \cup {storageInfo.bucket}
  /\ UNCHANGED <<digest, rendered, save, database, wrappers, hashCalls,
                 objects, faults, deletes>>

\* lines 86-95: the names, then file.exists() is sent and the call waits for
\* the answer
RetrieveContentCall(i, storageInfo) ==
  /\ calls[i].op = "idle"
  /\ i = Started + 1
  /\ calls' = [calls EXCEPT ![i] =
       [@ EXCEPT
          !.op = "retrieveContent", !.pc = "file.exists",
          !.storageInfo = storageInfo,
          !.preds = {j \in DOMAIN calls : Finished(calls[j])},
          !.epoch = deletes,
          !.requests = <<"file.exists">>]]
  /\ UNCHANGED <<digest, rendered, save, database, wrappers, hashCalls,
                 buckets, objects, faults, deletes>>

\* lines 95-101: file.exists() answers with what the backend holds then;
\* "File not found" when the answer was false, file.download() otherwise
FileExistsDone(i) ==
  /\ calls[i].op = "retrieveContent" /\ calls[i].pc = "file.exists"
  /\ LET s      == calls[i].storageInfo
         exists == InfoKey(s) \in DOMAIN objects
     IN  calls' = [calls EXCEPT ![i] =
           IF exists
             THEN [@ EXCEPT !.pc = "file.download", !.epoch = deletes,
                            !.requests = Append(@, "file.download")]
             ELSE [@ EXCEPT
                     !.pc = "thrown", !.epoch = deletes,
                     !.error = [name |-> "Error", code |-> 0,
                                message |-> "File not found: "
                                              \o FullPath(s),
                                step |-> "retrieveContent"]]]
  /\ UNCHANGED <<digest, rendered, save, database, wrappers, hashCalls,
                 buckets, objects, faults, deletes>>

\* (variant: the response of file.download() is returned, not its first
\* element)
DownloadedResponse(object) == <<object.data>>

\* lines 101-102: const [content] = await file.download(); return content
Downloaded(object) == object.data

\* lines 101-102: file.download() answers with the bytes, or with 404 when
\* there is no such object
FileDownloadDone(i) ==
  /\ calls[i].op = "retrieveContent" /\ calls[i].pc = "file.download"
  /\ LET s == calls[i].storageInfo IN
       calls' = [calls EXCEPT ![i] =
         IF InfoKey(s) \in DOMAIN objects
           THEN [@ EXCEPT !.pc = "returned", !.epoch = deletes,
                          !.data = Downloaded(objects[InfoKey(s)])]
           ELSE [@ EXCEPT !.pc = "thrown", !.epoch = deletes,
                          !.error = [name |-> "ApiError", code |-> 404,
                                     message |-> "No such object: "
                                                   \o FullPath(s),
                                     step |-> "file.download"]]]
  /\ UNCHANGED <<digest, rendered, save, database, wrappers, hashCalls,
                 buckets, objects, faults, deletes>>

retrieveContent ==
  \E i \in CallIds :
    \/ /\ calls[i].op = "idle" /\ i = Started + 1
       /\ \E storageInfo \in InfoInputs : RetrieveContentCall(i, storageInfo)
    \/ FileExistsDone(i)
    \/ FileDownloadDone(i)

(***************************************************************************)
(* The backend and the callers                                             *)
(***************************************************************************)
\* (variant: the upload is streamed to the final name, so that a failed
\* file.save() leaves the bytes sent so far)
RequestFailsLeavingPartial(i) ==
  /\ Awaiting(calls[i])
  /\ CanFail
  /\ faults' = faults + 1
  /\ calls' = [calls EXCEPT ![i] =
       [@ EXCEPT !.pc = "thrown", !.epoch = deletes,
                 !.error = RequestError(calls[i].pc)]]
  /\ LET c   == calls[i]
         key == ObjectKey(c.bucketName, "cas/" \o c.filename)
         all == SavedObject(c)
     IN  objects' =
           IF c.pc = "file.save"
             THEN [k \in DOMAIN objects \cup {key} |->
                     IF k = key
                       THEN [all EXCEPT !.data = SubSeq(@, 1, Len(@) - 1)]
                       ELSE objects[k]]
             ELSE objects
  /\ UNCHANGED <<digest, rendered, save, database, wrappers, hashCalls,
                 buckets, deletes>>

\* (variant: a request that failed is sent again)
RequestFailsRetried(i) ==
  /\ Awaiting(calls[i])
  /\ CanFail
  /\ faults' = faults + 1
  /\ calls' = [calls EXCEPT ![i] =
       [@ EXCEPT !.epoch = deletes, !.requests = Append(@, calls[i].pc)]]
  /\ UNCHANGED <<digest, rendered, save, database, wrappers, hashCalls,
                 buckets, objects, deletes>>

\* the request a call awaits fails
RequestFails(i) ==
  /\ Awaiting(calls[i])
  /\ CanFail
  /\ faults' = faults + 1
  /\ calls' = [calls EXCEPT ![i] =
       [@ EXCEPT !.pc = "thrown", !.epoch = deletes,
                 !.error = RequestError(calls[i].pc)]]
  /\ UNCHANGED <<digest, rendered, save, database, wrappers, hashCalls,
                 buckets, objects, deletes>>

\* retention outside the store removes an object
DeleteObject(key) ==
  /\ key \in DOMAIN objects
  /\ deletes < MaxDeletes
  /\ deletes' = deletes + 1
  /\ objects' = [k \in DOMAIN objects \ {key} |-> objects[k]]
  /\ UNCHANGED <<digest, rendered, save, database, wrappers, hashCalls,
                 buckets, calls, faults>>

Backend ==
  \/ \E i \in CallIds : RequestFails(i)
  \/ \E key \in DOMAIN objects : DeleteObject(key)

Next == storeContent \/ retrieveContent \/ Backend

Spec == Init /\ [][Next]_vars

(***************************************************************************)
(* generateContentHash called on its own                                   *)
(***************************************************************************)
RECURSIVE BytesOfAll(_)
BytesOfAll(log) ==
  IF log = <<>> THEN <<>>
  ELSE ToBuffer(log[1].content).data \o BytesOfAll(Tail(log))

\* (variant: one hash object for the module, updated by every call)
GenerateContentHashCallShared(content) ==
  /\ Len(hashCalls) < MaxHashCalls
  /\ hashCalls' =
       Append(hashCalls,
              [content |-> content,
               result |-> Sha256Hex(BytesOfAll(hashCalls)
                                      \o ToBuffer(content).data)])
  /\ UNCHANGED <<digest, rendered, save, database, wrappers, buckets,
                 objects, calls, faults, deletes>>

\* lines 122-126: a fresh hash object, one update, the digest in hex
GenerateContentHashCall(content) ==
  /\ Len(hashCalls) < MaxHashCalls
  /\ hashCalls' = Append(hashCalls,
                         [content |-> content, result |-> digest[content]])
  /\ UNCHANGED <<digest, rendered, save, database, wrappers, buckets,
                 objects, calls, faults, deletes>>

InitHash ==
  /\ digest = [c \in HashContents |-> generateContentHash(c)]
  /\ InitStore

NextHash == \E content \in HashContents : GenerateContentHashCall(content)

SpecHash == InitHash /\ [][NextHash]_vars

(***************************************************************************)
(* storeContent with payloads given as strings and as Buffers, the empty   *)
(* payload among them, and with two content types; retrieveContent of the  *)
(* storage information that was returned                                   *)
(***************************************************************************)
InitPut ==
  /\ digest = [c \in PutHashInputs |-> generateContentHash(c)]
  /\ InitStore

storeContentPut ==
  \E i \in CallIds :
    \/ \E a \in PutArtifacts, contentType \in PutContentTypes,
          bucketName \in BucketNames :
         /\ StoreContentCall(i, a[1], a[2], contentType, bucketName)
         /\ UNCHANGED <<wrappers, save>>
    \/ BucketExistsDone(i)
    \/ BucketCreateDone(i)
    \/ FileSaveDone(i)

retrieveContentPut ==
  \E i \in CallIds :
    \/ \E j \in CallIds :
         /\ calls[j].op = "storeContent" /\ calls[j].pc = "returned"
         /\ RetrieveContentCall(i, calls[j].info)
    \/ FileExistsDone(i)
    \/ FileDownloadDone(i)

\* (requests fail here only where a call begins: in bucket.exists() and in
\* file.exists())
NextPut ==
  \/ storeContentPut
  \/ retrieveContentPut
  \/ \E i \in CallIds :
       calls[i].pc \in {"bucket.exists", "file.exists"} /\ RequestFails(i)
  \/ \E key \in DOMAIN objects : DeleteObject(key)

SpecPut == InitPut /\ [][NextPut]_vars

(***************************************************************************)
(* Storage information kept as JSON: JSON.stringify(storageInfo) where it  *)
(* is saved, JSON.parse(content) where it is read.  The text is modelled   *)
(* as its members in order, a string by its characters (none of those here *)
(* needs an escape), a number by its decimal digits.                       *)
(***************************************************************************)
RECURSIVE Digits(_)
Digits(n) == IF n < 10 THEN <<n>> ELSE Append(Digits(n \div 10), n % 10)

RECURSIVE NumberOf(_)
NumberOf(digits) ==
  IF Len(digits) = 1 THEN digits[1]
  ELSE 10 * NumberOf(SubSeq(digits, 1, Len(digits) - 1)) + digits[Len(digits)]

JSONString(s) == [type |-> "string", text |-> s]

JSONNumber(n) == [type |-> "number", text |-> Digits(n)]

\* the members in the order in which storeContent sets the properties
JSONStringify(storageInfo) ==
  << <<"bucket", JSONString(storageInfo.bucket)>>,
     <<"path", JSONString(storageInfo.path)>>,
     <<"filename", JSONString(storageInfo.filename)>>,
     <<"contentHash", JSONString(storageInfo.contentHash)>>,
     <<"contentType", JSONString(storageInfo.contentType)>>,
     <<"size", JSONNumber(storageInfo.size)>> >>

JSONValue(token) ==
  IF token.type = "number" THEN NumberOf(token.text) ELSE token.text

\* the object with the members of the text
JSONParse(text) ==
  [name \in {text[m][1] : m \in 1..Len(text)} |->
     JSONValue(text[CHOOSE m \in 1..Len(text) : text[m][1] = name][2])]

\* storage information with the bucket, path and filename of another, and
\* nothing else of it
KeyOnly(storageInfo) ==
  StorageInfo(storageInfo.bucket, storageInfo.path, storageInfo.filename,
              "", "", 0)

\* "# Changelog\n", 12 bytes: a size of two digits
Changelog == String(<<35, 32, 67, 104, 97, 110, 103, 101, 108, 111, 103, 10>>)

RefArtifacts == {<<Hello, "md">>, <<Changelog, "md">>}

RefHashInputs ==
  {a[1] : a \in RefArtifacts} \cup {ToBuffer(a[1]) : a \in RefArtifacts}

InitRef ==
  /\ digest = [c \in RefHashInputs |-> generateContentHash(c)]
  /\ InitStore

storeContentRef ==
  \E i \in CallIds :
    \/ \E a \in RefArtifacts, contentType \in ContentTypes,
          bucketName \in BucketNames :
         /\ StoreContentCall(i, a[1], a[2], contentType, bucketName)
         /\ UNCHANGED <<wrappers, save>>
    \/ BucketExistsDone(i)
    \/ BucketCreateDone(i)
    \/ FileSaveDone(i)

\* retrieveContent of storage information that storeContent returned: as
\* returned, read back from its JSON text, or with only its key fields
retrieveContentRef ==
  \E i \in CallIds :
    \/ \E j \in CallIds :
         /\ calls[j].op = "storeContent" /\ calls[j].pc = "returned"
         /\ \/ RetrieveContentCall(i, calls[j].info)
            \/ RetrieveContentCall(i, JSONParse(JSONStringify(calls[j].info)))
            \/ RetrieveContentCall(i, KeyOnly(calls[j].info))
    \/ FileExistsDone(i)
    \/ FileDownloadDone(i)

\* (requests fail here only where a call begins: in bucket.exists() and in
\* file.exists())
NextRef ==
  \/ storeContentRef
  \/ retrieveContentRef
  \/ \E i \in CallIds :
       calls[i].pc \in {"bucket.exists", "file.exists"} /\ RequestFails(i)
  \/ \E key \in DOMAIN objects : DeleteObject(key)

SpecRef == InitRef /\ [][NextRef]_vars

(***************************************************************************)
(* storeReadme, storeAnalysisResults and storeLogOutput: storeContent with *)
(* a fixed extension and content type, in the default bucket.              *)
(* storeAnalysisResults stores JSON.stringify(results, null, 2); a value   *)
(* is a number, a boolean, a string (as code units) or an object (as its   *)
(* members in order).                                                      *)
(***************************************************************************)
ResultsNumber(n) == [type |-> "number", value |-> n]

ResultsBoolean(b) == [type |-> "boolean", value |-> b]

ResultsString(units) == [type |-> "string", value |-> units]

ResultsObject(members) == [type |-> "object", members |-> members]

Spaces(n) == [k \in 1..n |-> 32]

\* a string between quotes; the quote, the backslash and the line feed are
\* escaped (the strings here hold no other character that is)
RECURSIVE Quoted(_)
Quoted(units) ==
  IF units = <<>> THEN <<>>
  ELSE (IF units[1] = 34 THEN <<92, 34>>
        ELSE IF units[1] = 92 THEN <<92, 92>>
        ELSE IF units[1] = 10 THEN <<92, 110>>
        ELSE <<units[1]>>) \o Quoted(Tail(units))

\* JSON.stringify(value, null, 2), for a value that begins at depth indent
RECURSIVE JSONStringifyIndented(_, _)
RECURSIVE JSONMembersIndented(_, _)
JSONStringifyIndented(value, indent) ==
  IF value.type = "number"
    THEN [k \in 1..Len(Digits(value.value)) |-> 48 + Digits(value.value)[k]]
  ELSE IF value.type = "boolean"
    THEN (IF value.value THEN <<116, 114, 117, 101>>
                         ELSE <<102, 97, 108, 115, 101>>)
  ELSE IF value.type = "string"
    THEN <<34>> \o Quoted(value.value) \o <<34>>
  ELSE IF value.members = <<>> THEN <<123, 125>>
  ELSE <<123, 10>> \o JSONMembersIndented(value.members, indent + 2)
         \o <<10>> \o Spaces(indent) \o <<125>>

JSONMembersIndented(members, indent) ==
  Spaces(indent) \o <<34>> \o Quoted(members[1][1]) \o <<34, 58, 32>>
    \o JSONStringifyIndented(members[1][2], indent)
    \o (IF Len(members) = 1 THEN <<>>
        ELSE <<44, 10>> \o JSONMembersIndented(Tail(members), indent))

\* {readme: "# Hello\n", exports: 12, hasExistingReadme: true,
\* sourceFiles: {}}
Results ==
  ResultsObject(<<
    <<<<114, 101, 97, 100, 109, 101>>, ResultsString(Hello.data)>>,
    <<<<101, 120, 112, 111, 114, 116, 115>>, ResultsNumber(12)>>,
    <<<<104, 97, 115, 69, 120, 105, 115, 116, 105, 110, 103, 82, 101, 97, 100, 109, 101>>,
      ResultsBoolean(TRUE)>>,
    <<<<115, 111, 117, 114, 99, 101, 70, 105, 108, 101, 115>>,
      ResultsObject(<<>>)>> >>)

\* "ok\n"
LogOutput == String(<<111, 107, 10>>)

\* package names and versions, as <<packageName, packageVersion>>
Packages ==
  {<<"left-pad", "1.0.0">>, <<"left-pad", "1.3.0">>, <<"is-odd", "1.0.0">>}

WrapHashInputs ==
  LET contents == {Hello, LogOutput, String(JSONStringifyIndented(Results, 0))}
  IN  contents \cup {ToBuffer(c) : c \in contents}

WrapperCalled(i, name, argument, packageName, packageVersion) ==
  wrappers' = [wrappers EXCEPT ![i] =
                 [name |-> name, argument |-> argument,
                  packageName |-> packageName,
                  packageVersion |-> packageVersion]]

\* (variant: the package name goes into the name of the object)
StoreReadmeCallByPackage(i, readme, packageName, packageVersion) ==
  /\ StoreContentCall(i, readme, packageName \o ".md", "text/markdown",
                      DEFAULT_BUCKET_NAME)
  /\ WrapperCalled(i, "storeReadme", readme, packageName, packageVersion)

\* lines 136-147
StoreReadmeCall(i, readme, packageName, packageVersion) ==
  /\ StoreContentCall(i, readme, "md", "text/markdown", DEFAULT_BUCKET_NAME)
  /\ WrapperCalled(i, "storeReadme", readme, packageName, packageVersion)

\* lines 157-168
StoreAnalysisResultsCall(i, results, packageName, packageVersion) ==
  /\ StoreContentCall(i, String(JSONStringifyIndented(results, 0)), "json",
                      "application/json", DEFAULT_BUCKET_NAME)
  /\ WrapperCalled(i, "storeAnalysisResults", results, packageName,
                   packageVersion)

\* lines 178-189
StoreLogOutputCall(i, log, packageName, packageVersion) ==
  /\ StoreContentCall(i, log, "log", "text/plain", DEFAULT_BUCKET_NAME)
  /\ WrapperCalled(i, "storeLogOutput", log, packageName, packageVersion)

InitWrap ==
  /\ digest = [c \in WrapHashInputs |-> generateContentHash(c)]
  /\ InitStore

storeReadme ==
  \E i \in CallIds, p \in Packages :
    /\ StoreReadmeCall(i, Hello, p[1], p[2])
    /\ UNCHANGED save

storeAnalysisResults ==
  \E i \in CallIds, p \in Packages :
    /\ StoreAnalysisResultsCall(i, Results, p[1], p[2])
    /\ UNCHANGED save

storeLogOutput ==
  \E i \in CallIds, p \in Packages :
    /\ StoreLogOutputCall(i, LogOutput, p[1], p[2])
    /\ UNCHANGED save

\* the steps of storeContent after its first
storeContentProceeds ==
  \E i \in CallIds :
    BucketExistsDone(i) \/ BucketCreateDone(i) \/ FileSaveDone(i)

\* (no request fails here)
NextWrap ==
  \/ storeReadme
  \/ storeAnalysisResults
  \/ storeLogOutput
  \/ storeContentProceeds

SpecWrap == InitWrap /\ [][NextWrap]_vars

(***************************************************************************)
(* Calls that name their bucket, and calls that leave it out.              *)
(***************************************************************************)
\* a bucket name given by a caller, other than the default
OtherBucketName == "my-project-artifacts"

BucketChoices == {DEFAULT_BUCKET_NAME, OtherBucketName}

\* two contents under one extension
BucketArtifacts == {<<Hello, "md">>, <<EAcute, "md">>}

BucketHashInputs ==
  {a[1] : a \in BucketArtifacts} \cup {ToBuffer(a[1]) : a \in BucketArtifacts}

\* line 35: bucketName: string = DEFAULT_BUCKET_NAME, for a call with three
\* arguments
StoreContentDefaultCall(i, content, extension, contentType) ==
  /\ StoreContentCall(i, content, extension, contentType, DEFAULT_BUCKET_NAME)
  /\ WrapperCalled(i, "storeContent/3", content, "", "")

InitBucket ==
  /\ digest = [c \in BucketHashInputs |-> generateContentHash(c)]
  /\ buckets \in SUBSET BucketChoices
  /\ objects = <<>>
  /\ calls = [i \in CallIds |-> IdleCall]
  /\ faults = 0
  /\ deletes = 0
  /\ hashCalls = <<>>
  /\ wrappers = [i \in CallIds |-> NoWrapper]
  /\ rendered = <<>>
  /\ save = [s \in SaveIds |-> NoSave]
  /\ database = EmptyDatabase

storeContentBucket ==
  \E i \in CallIds :
    \/ \E a \in BucketArtifacts, contentType \in ContentTypes,
          bucketName \in BucketChoices :
         /\ StoreContentCall(i, a[1], a[2], contentType, bucketName)
         /\ UNCHANGED <<wrappers, save>>
    \/ \E a \in BucketArtifacts, contentType \in ContentTypes :
         /\ StoreContentDefaultCall(i, a[1], a[2], contentType)
         /\ UNCHANGED save
    \/ BucketExistsDone(i)
    \/ BucketCreateDone(i)
    \/ FileSaveDone(i)

\* the storage information with the default bucket in place of its own
InDefaultBucket(storageInfo) ==
  [storageInfo EXCEPT !.bucket = DEFAULT_BUCKET_NAME]

\* retrieveContent of storage information that storeContent returned, and
\* of the same names in the default bucket
retrieveContentBucket ==
  \E i \in CallIds :
    \/ \E j \in CallIds :
         /\ calls[j].op = "storeContent" /\ calls[j].pc = "returned"
         /\ \/ RetrieveContentCall(i, calls[j].info)
            \/ RetrieveContentCall(i, InDefaultBucket(calls[j].info))
    \/ FileExistsDone(i)
    \/ FileDownloadDone(i)

NextBucket ==
  \/ storeContentBucket
  \/ retrieveContentBucket
  \/ \E i \in CallIds : RequestFails(i)

SpecBucket == InitBucket /\ [][NextBucket]_vars

(***************************************************************************)
(* ReadmeDisplay: what the component shows for the content of a README     *)
(* record.  A string is either its characters, String(units), or, for the  *)
(* strings JSON.stringify made, its members, Text(members).                *)
(***************************************************************************)
Text(members) == [type |-> "string", tokens |-> members]

\* "12": a JSON text that is not an object
Twelve == String(<<49, 50>>)

\* the units a JSON text of one value can begin with, white space aside:
\* a quote, a minus, a digit, [, f, n, t and {
JSONFirstUnits == {34, 45, 91, 102, 110, 116, 123} \cup 48..57

\* JSON.parse(content) for the strings of the model: the members of a text
\* that JSON.stringify made of an object, no members for a number, and a
\* SyntaxError for a string that begins with no unit of JSONFirstUnits
ParseContent(content) ==
  IF "tokens" \in DOMAIN content
    THEN [threw |-> FALSE, members |-> content.tokens]
  ELSE IF /\ content.data # <<>>
          /\ \A k \in 1..Len(content.data) : content.data[k] \in 48..57
    THEN [threw |-> FALSE, members |-> <<>>]
  ELSE [threw |-> TRUE, members |-> <<>>]

HasMember(members, name) == \E m \in 1..Len(members) : members[m][1] = name

Member(members, name) ==
  members[CHOOSE m \in 1..Len(members) : members[m][1] = name][2]

\* parsed.name is there and is neither "" nor 0
Truthy(members, name) ==
  /\ HasMember(members, name)
  /\ IF Member(members, name).type = "number"
       THEN NumberOf(Member(members, name).text) # 0
       ELSE Member(members, name).text # ""

\* line 63
IsStorageInfo(members) ==
  /\ Truthy(members, "contentHash")
  /\ Truthy(members, "bucket")
  /\ Truthy(members, "path")
  /\ Truthy(members, "filename")

\* String(n) of a number that is a non-negative integer: its decimal digits
RECURSIVE DecimalText(_)
DecimalText(digits) ==
  IF digits = <<>> THEN ""
  ELSE HexDigit[digits[1] + 1] \o DecimalText(Tail(digits))

\* `${...}` of a member: a string as it is, a number as its digits
Shown(token) ==
  IF token.type = "number" THEN DecimalText(token.text) ELSE token.text

\* lines 67-74: the text shown in place of the content
Placeholder(members, packageName, version) ==
  "# " \o packageName \o (IF version # "" THEN " v" \o version ELSE "")
    \o "\n\nThis README is stored in content-addressable storage.\n\n"
    \o "**Content Hash:** " \o Shown(Member(members, "contentHash")) \o "\n"
    \o "**Storage Location:** " \o Shown(Member(members, "bucket")) \o "/"
    \o Shown(Member(members, "path")) \o "/"
    \o Shown(Member(members, "filename")) \o "\n\n"
    \o "*Content will be rendered here in the actual implementation.*"

\* lines 52-101: what the component shows for a content; version is "" when
\* it is not given. retrieved lists the calls of retrieveContent made: the
\* component makes none
ReadmeDisplay(content, packageName, version) ==
  LET outcome == ParseContent(content)
      found   == ~outcome.threw /\ IsStorageInfo(outcome.members)
  IN  [content |-> content, packageName |-> packageName, version |-> version,
       isStorageInfo |-> found,
       location |->
         IF found
           THEN Shown(Member(outcome.members, "bucket")) \o "/"
                  \o Shown(Member(outcome.members, "path")) \o "/"
                  \o Shown(Member(outcome.members, "filename"))
           ELSE "",
       markdownContent |->
         IF found
           THEN [type |-> "string",
                 text |-> Placeholder(outcome.members, packageName, version)]
           ELSE content,
       retrieved |-> <<>>]

\* renderings in one behaviour
MaxRenders == 2

\* {"contentHash": 7, "bucket": 12, "path": "cas", "filename": "f.md"}:
\* numbers where storage information has strings
NumberedMembers ==
  << <<"contentHash", JSONNumber(7)>>, <<"bucket", JSONNumber(12)>>,
     <<"path", JSONString("cas")>>, <<"filename", JSONString("f.md")>> >>

\* the contents rendered: a README, a number, and the texts of the storage
\* information of the README, of the same with only its key fields, of an
\* object with no members, and of an object with numbers for members
RenderContents ==
  {Hello, Twelve, Text(<<>>), Text(NumberedMembers),
   Text(JSONStringify(InfoFor(Hello, "md", "text/markdown",
                              DEFAULT_BUCKET_NAME))),
   Text(JSONStringify(KeyOnly(InfoFor(Hello, "md", "text/markdown",
                                      DEFAULT_BUCKET_NAME))))}

Versions == {"", "1.3.0"}

ReadmeDisplayRender(content, packageName, version) ==
  /\ Len(rendered) < MaxRenders
  /\ rendered' = Append(rendered, ReadmeDisplay(content, packageName, version))
  /\ UNCHANGED <<digest, save, database, wrappers, hashCalls, buckets,
                 objects, calls, faults, deletes>>

NextRender ==
  \E content \in RenderContents, p \in Packages, version \in Versions :
    ReadmeDisplayRender(content, p[1], version)

SpecRender == Init /\ [][NextRender]_vars

(***************************************************************************)
(* saveAnalysisResults: the three puts, then the records of the database.  *)
(* The function keeps nothing between calls, so a call can begin while     *)
(* others are in progress: save holds one record for each call.            *)
(***************************************************************************)
\* storeReadme, storeAnalysisResults and storeLogOutput: the calls of
\* storeContent one saveAnalysisResults can make
PutsPerSave == 3

SaveCallIds == 1..(PutsPerSave * MaxSaves)

\* value.name of an object of the analysis; ResultsString(<<>>) stands for
\* undefined, which is as false as ""
ResultsMember(value, name) ==
  IF \E m \in 1..Len(value.members) : value.members[m][1] = name
    THEN value.members[CHOOSE m \in 1..Len(value.members) :
                         value.members[m][1] = name][2]
    ELSE ResultsString(<<>>)

\* {packageInfo: {description: "pad"}, readme: "# Hello\n",
\* hasExistingReadme: true}
AnalysisWithReadme ==
  ResultsObject(<<
    <<<<112, 97, 99, 107, 97, 103, 101, 73, 110, 102, 111>>,
      ResultsObject(<< <<<<100, 101, 115, 99, 114, 105, 112, 116, 105, 111, 110>>, ResultsString(<<112, 97, 100>>)>> >>)>>,
    <<<<114, 101, 97, 100, 109, 101>>, ResultsString(Hello.data)>>,
    <<<<104, 97, 115, 69, 120, 105, 115, 116, 105, 110, 103, 82, 101, 97, 100, 109, 101>>,
      ResultsBoolean(TRUE)>> >>)

\* {packageInfo: {description: "pad"}, readme: "", hasExistingReadme: false}
AnalysisWithEmptyReadme ==
  ResultsObject(<<
    <<<<112, 97, 99, 107, 97, 103, 101, 73, 110, 102, 111>>,
      ResultsObject(<< <<<<100, 101, 115, 99, 114, 105, 112, 116, 105, 111, 110>>, ResultsString(<<112, 97, 100>>)>> >>)>>,
    <<<<114, 101, 97, 100, 109, 101>>, ResultsString(<<>>)>>,
    <<<<104, 97, 115, 69, 120, 105, 115, 116, 105, 110, 103, 82, 101, 97, 100, 109, 101>>,
      ResultsBoolean(FALSE)>> >>)

AnalysisResults == {AnalysisWithReadme, AnalysisWithEmptyReadme}

\* the calls made, as <<packageName, packageVersion, analysisResult>>: one
\* version of a package with a README, and another with an empty README
SaveInputs ==
  {<<"left-pad", "1.0.0", AnalysisWithReadme>>,
   <<"left-pad", "1.3.0", AnalysisWithEmptyReadme>>}

SaveHashInputs ==
  LET strings == {Hello, LogOutput}
                   \cup {String(JSONStringifyIndented(a, 0)) :
                           a \in AnalysisResults}
  IN  strings \cup {ToBuffer(c) : c \in strings}

Readme(analysisResult) == ResultsMember(analysisResult, <<114, 101, 97, 100, 109, 101>>).value

Description(analysisResult) ==
  ResultsMember(ResultsMember(analysisResult, <<112, 97, 99, 107, 97, 103, 101, 73, 110, 102, 111>>),
                <<100, 101, 115, 99, 114, 105, 112, 116, 105, 111, 110>>).value

\* the id of a new record of a table
NewId(table) == Cardinality(table) + 1

\* (variant: the package is written when the call begins, before the puts)
SaveAnalysisResultsCallPackageFirst(s, packageName, packageVersion, analysisResult, logOutput) ==
  /\ save[s].pc = "idle"
  /\ s = Cardinality({t \in SaveIds : save[t].pc # "idle"}) + 1
  /\ save' = [save EXCEPT ![s] =
       [NoSave EXCEPT
          !.pc = IF Readme(analysisResult) # <<>> THEN "storeReadme"
                 ELSE "storeAnalysisResults",
          !.packageName = packageName,
          !.packageVersion = packageVersion,
          !.analysisResult = analysisResult,
          !.logOutput = logOutput]]
  /\ database' =
       [database EXCEPT !.package =
          {p \in @ : p.name # packageName}
            \cup {[id |-> IF \E p \in @ : p.name = packageName
                            THEN (CHOOSE p \in @ : p.name = packageName).id
                            ELSE NewId(@),
                   name |-> packageName,
                   description |-> Description(analysisResult)]}]
  /\ UNCHANGED <<digest, rendered, wrappers, hashCalls, buckets, objects,
                 calls, faults, deletes>>

\* lines 322-336: a call begins, whatever the calls before it are doing;
\* storeReadme is called when analysisResult.readme is not empty
SaveAnalysisResultsCall(s, packageName, packageVersion, analysisResult, logOutput) ==
  /\ save[s].pc = "idle"
  /\ s = Cardinality({t \in SaveIds : save[t].pc # "idle"}) + 1
  /\ save' = [save EXCEPT ![s] =
       [NoSave EXCEPT
          !.pc = IF Readme(analysisResult) # <<>> THEN "storeReadme"
                 ELSE "storeAnalysisResults",
          !.packageName = packageName,
          !.packageVersion = packageVersion,
          !.analysisResult = analysisResult,
          !.logOutput = logOutput]]
  /\ UNCHANGED <<digest, rendered, database, wrappers, hashCalls, buckets,
                 objects, calls, faults, deletes>>

\* lines 331-335
SaveStoreReadme(s, i) ==
  /\ save[s].pc = "storeReadme"
  /\ StoreReadmeCall(i, String(Readme(save[s].analysisResult)),
                     save[s].packageName, save[s].packageVersion)
  /\ save' = [save EXCEPT ![s] =
       [@ EXCEPT !.pc = "await storeReadme", !.call = i]]

\* lines 339-343
SaveStoreAnalysisResults(s, i) ==
  /\ save[s].pc = "storeAnalysisResults"
  /\ StoreAnalysisResultsCall(i, save[s].analysisResult, save[s].packageName,
                              save[s].packageVersion)
  /\ save' = [save EXCEPT ![s] =
       [@ EXCEPT !.pc = "await storeAnalysisResults", !.call = i]]

\* lines 346-350
SaveStoreLogOutput(s, i) ==
  /\ save[s].pc = "storeLogOutput"
  /\ StoreLogOutputCall(i, save[s].logOutput, save[s].packageName,
                        save[s].packageVersion)
  /\ save' = [save EXCEPT ![s] =
       [@ EXCEPT !.pc = "await storeLogOutput", !.call = i]]

\* an await of a put ends: with the storage information, or with what the
\* put threw, which saveAnalysisResults does not catch
SaveAwaitDone(s) ==
  /\ save[s].pc \in {"await storeReadme", "await storeAnalysisResults",
                     "await storeLogOutput"}
  /\ Finished(calls[save[s].call])
  /\ LET c == calls[save[s].call] IN
       save' = [save EXCEPT ![s] =
         IF c.pc # "returned"
           THEN [@ EXCEPT !.pc = "thrown", !.error = c.error]
         ELSE IF save[s].pc = "await storeReadme"
           THEN [@ EXCEPT !.pc = "storeAnalysisResults",
                          !.readmeStorageInfo = c.info,
                          !.puts = Append(@, save[s].call)]
         ELSE IF save[s].pc = "await storeAnalysisResults"
           THEN [@ EXCEPT !.pc = "storeLogOutput",
                          !.resultsStorageInfo = c.info,
                          !.puts = Append(@, save[s].call)]
         ELSE [@ EXCEPT !.pc = "package.upsert",
                        !.logStorageInfo = c.info,
                        !.puts = Append(@, save[s].call)]]
  /\ UNCHANGED <<digest, rendered, database, wrappers, hashCalls, buckets,
                 objects, calls, faults, deletes>>

\* lines 353-362: prisma.package.upsert, by name
PackageUpsert(s) ==
  /\ save[s].pc = "package.upsert"
  /\ LET found == {p \in database.package : p.name = save[s].packageName}
         id    == IF found # {} THEN (CHOOSE p \in found : TRUE).id
                  ELSE NewId(database.package)
     IN  /\ database' =
              [database EXCEPT !.package =
                 (@ \ found)
                   \cup {[id |-> id, name |-> save[s].packageName,
                          description |->
                            Description(save[s].analysisResult)]}]
         /\ save' = [save EXCEPT ![s] =
              [@ EXCEPT !.pc = "packageVersion.upsert", !.pkg = id,
                        !.wrote = @ + 1]]
  /\ UNCHANGED <<digest, rendered, wrappers, hashCalls, buckets, objects,
                 calls, faults, deletes>>

\* lines 365-377: prisma.packageVersion.upsert, by package and version;
\* update: {}
PackageVersionUpsert(s) ==
  /\ save[s].pc = "packageVersion.upsert"
  /\ LET found == {v \in database.packageVersion :
                     /\ v.packageId = save[s].pkg
                     /\ v.version = save[s].packageVersion}
         id    == IF found # {} THEN (CHOOSE v \in found : TRUE).id
                  ELSE NewId(database.packageVersion)
     IN  /\ database' =
              [database EXCEPT !.packageVersion =
                 @ \cup {[id |-> id, packageId |-> save[s].pkg,
                          version |-> save[s].packageVersion]}]
         /\ save' = [save EXCEPT ![s] =
              [@ EXCEPT
                 !.pc = IF save[s].readmeStorageInfo # NoInfo
                          THEN "readme.upsert"
                          ELSE "verification.create",
                 !.packageVersionRecord = id,
                 !.wrote = @ + 1]]
  /\ UNCHANGED <<digest, rendered, wrappers, hashCalls, buckets, objects,
                 calls, faults, deletes>>

\* lines 384, 389: content: JSON.stringify(readmeStorageInfo)
ReadmeContent(s) == Text(JSONStringify(s.readmeStorageInfo))

\* lines 380-393: prisma.readme.upsert, by version
ReadmeUpsert(s) ==
  /\ save[s].pc = "readme.upsert"
  /\ database' =
       [database EXCEPT !.readme =
          {r \in @ : r.packageVersionId # save[s].packageVersionRecord}
            \cup {[packageVersionId |-> save[s].packageVersionRecord,
                   content |-> ReadmeContent(save[s]),
                   verified |-> FALSE]}]
  /\ save' = [save EXCEPT ![s] =
       [@ EXCEPT !.pc = "verification.create", !.wrote = @ + 1]]
  /\ UNCHANGED <<digest, rendered, wrappers, hashCalls, buckets, objects,
                 calls, faults, deletes>>

\* lines 396-407: prisma.verification.create, and the return
VerificationCreate(s) ==
  /\ save[s].pc = "verification.create"
  /\ database' =
       [database EXCEPT !.verification =
          @ \cup {[id |-> NewId(@),
                   packageVersionId |-> save[s].packageVersionRecord,
                   status |-> "SUCCEEDED",
                   results |->
                     [analysisResults |->
                        Text(JSONStringify(save[s].resultsStorageInfo)),
                      logOutput |->
                        Text(JSONStringify(save[s].logStorageInfo))]]}]
  /\ save' = [save EXCEPT ![s] =
       [@ EXCEPT !.pc = "returned", !.wrote = @ + 1]]
  /\ UNCHANGED <<digest, rendered, wrappers, hashCalls, buckets, objects,
                 calls, faults, deletes>>

InitSave ==
  /\ digest = [c \in SaveHashInputs |-> generateContentHash(c)]
  /\ buckets \in SUBSET BucketNames
  /\ objects = <<>>
  /\ calls = [i \in SaveCallIds |-> IdleCall]
  /\ faults = 0
  /\ deletes = 0
  /\ hashCalls = <<>>
  /\ wrappers = [i \in SaveCallIds |-> NoWrapper]
  /\ rendered = <<>>
  /\ save = [s \in SaveIds |-> NoSave]
  /\ database = EmptyDatabase

saveAnalysisResults ==
  \E s \in SaveIds :
    \/ \E p \in SaveInputs :
         SaveAnalysisResultsCall(s, p[1], p[2], p[3], LogOutput)
    \/ \E i \in SaveCallIds :
         \/ SaveStoreReadme(s, i)
         \/ SaveStoreAnalysisResults(s, i)
         \/ SaveStoreLogOutput(s, i)
    \/ SaveAwaitDone(s)
    \/ PackageUpsert(s)
    \/ PackageVersionUpsert(s)
    \/ ReadmeUpsert(s)
    \/ VerificationCreate(s)

\* the steps of the puts after their first, and the requests that fail;
\* nothing deletes an object here
storeContentOfSave ==
  \E i \in SaveCallIds :
    \/ BucketExistsDone(i)
    \/ BucketCreateDone(i)
    \/ FileSaveDone(i)
    \/ RequestFails(i)

NextSave == saveAnalysisResults \/ storeContentOfSave

SpecSave == InitSave /\ [][NextSave]_vars

(***************************************************************************)
(* Properties                                                              *)
(***************************************************************************)
IsStore(c) == c.op = "storeContent"

IsRetrieve(c) == c.op = "retrieveContent"

Returned(c) == c.pc = "returned"

\* the call ended because a backend request failed
Interrupted(c) == c.pc = "thrown" /\ c.error.code = 503

\* the error retrieveContent throws itself (line 97)
IsFileNotFound(c) ==
  /\ c.pc = "thrown"
  /\ c.error.name = "Error"
  /\ c.error.message = "File not found: " \o FullPath(c.storageInfo)

Bytes(c) == ToBuffer(c.content).data

StoreKey(c) == ObjectKey(c.bucketName, "cas/" \o c.filename)

SameBytesExtensionBucket(c, d) ==
  /\ Bytes(c) = Bytes(d)
  /\ c.extension = d.extension
  /\ c.bucketName = d.bucketName

\* call j retrieves what call i stored: it began after i returned, with the
\* storage information i returned, and no object was deleted in between
RetrievesAfter(i, j) ==
  /\ IsStore(calls[i]) /\ Returned(calls[i])
  /\ IsRetrieve(calls[j]) /\ Finished(calls[j])
  /\ calls[j].storageInfo = calls[i].info
  /\ i \in calls[j].preds
  /\ calls[j].epoch = calls[i].epoch

\* C1: round trip. A retrieveContent of the storage information a
\* storeContent returned, with no object deleted in between and no backend
\* request of the retrieval failing, returns exactly the bytes stored.
RoundTrip ==
  \A i, j \in CallIds :
    (RetrievesAfter(i, j) /\ ~Interrupted(calls[j]))
      => /\ Returned(calls[j])
         /\ calls[j].data = Bytes(calls[i])

RoundTripWitness ==
  \E i, j \in CallIds :
    /\ RetrievesAfter(i, j)
    /\ Returned(calls[j])
    /\ Len(calls[j].data) > 0

\* C2: dedup idempotence. Of two storeContent calls with the same bytes,
\* extension and bucket, the second begun after the first returned: the
\* second does not fail on the object (or the bucket) being there already,
\* it returns the same filename, contentHash and size, and, no object
\* having been deleted in between, it writes under the name that is already
\* there, so that no key is added.
DedupIdempotence ==
  \A i, j \in CallIds :
    ( /\ IsStore(calls[i]) /\ Returned(calls[i])
      /\ IsStore(calls[j]) /\ i \in calls[j].preds
      /\ SameBytesExtensionBucket(calls[i], calls[j]) )
      => /\ calls[j].pc = "thrown" => calls[j].error.code = 503
         /\ Returned(calls[j]) =>
              /\ calls[j].info.filename = calls[i].info.filename
              /\ calls[j].info.contentHash = calls[i].info.contentHash
              /\ calls[j].info.size = calls[i].info.size
              /\ InfoKey(calls[j].info) = InfoKey(calls[i].info)
              /\ calls[j].epoch = calls[i].epoch => ~calls[j].added

DedupIdempotenceWitness ==
  \E i, j \in CallIds :
    /\ IsStore(calls[i]) /\ Returned(calls[i])
    /\ IsStore(calls[j]) /\ Returned(calls[j]) /\ i \in calls[j].preds
    /\ SameBytesExtensionBucket(calls[i], calls[j])
    /\ calls[j].epoch = calls[i].epoch
    /\ Cardinality(DOMAIN objects) = 1

Concurrent(i, j) ==
  i # j /\ i \notin calls[j].preds /\ j \notin calls[i].preds

\* C3: concurrent identical writes. Two storeContent calls with the same
\* bytes, content type, extension and bucket that overlap in time, from any
\* state of the store, both return, with the same filename and contentHash
\* (no backend request having failed).
ConcurrentIdenticalWrites ==
  \A i, j \in CallIds :
    ( /\ IsStore(calls[i]) /\ IsStore(calls[j]) /\ Concurrent(i, j)
      /\ SameBytesExtensionBucket(calls[i], calls[j])
      /\ calls[i].contentType = calls[j].contentType
      /\ Finished(calls[i]) /\ Finished(calls[j])
      /\ ~Interrupted(calls[i]) /\ ~Interrupted(calls[j]) )
      => /\ Returned(calls[i]) /\ Returned(calls[j])
         /\ calls[i].info.filename = calls[j].info.filename
         /\ calls[i].info.contentHash = calls[j].info.contentHash

\* C4: race-safe creation of the bucket. No storeContent call fails in its
\* create step because another call created the bucket first: every call
\* whose backend requests are answered proceeds to its write.
RaceSafeBucketCreation ==
  \A i \in CallIds :
    (IsStore(calls[i]) /\ calls[i].pc = "thrown")
      => ~(calls[i].error.step = "bucket.create" /\ calls[i].error.code = 409)

\* C5: missing object. A retrieveContent that fails, other than by a failed
\* backend request, fails with the "File not found" error of the function,
\* also when the object is deleted while the call is in progress; and a
\* call never returns bytes for an object that was not there.
MissingObjectNotFound ==
  \A j \in CallIds :
    (IsRetrieve(calls[j]) /\ calls[j].pc = "thrown" /\ ~Interrupted(calls[j]))
      => IsFileNotFound(calls[j])

\* C6: no partially written object is visible. In every state, also while a
\* storeContent is in progress or has failed (a call whose caller went away
\* is a call in progress: nothing in the code stops it), every object
\* under a name cas/<hash>.<ext> holds the complete bytes of a storeContent
\* that returned for that name, and those bytes hash to <hash>; and every
\* retrieveContent that returns, returns bytes of the size and the hash its
\* storage information names.
NoPartialObject ==
  /\ \A k \in DOMAIN objects :
       /\ \E i \in CallIds :
            /\ IsStore(calls[i]) /\ Returned(calls[i])
            /\ StoreKey(calls[i]) = k
            /\ objects[k].data = Bytes(calls[i])
       /\ Buffer(objects[k].data) \in DOMAIN digest
       /\ k[2] = "cas/" \o Filename(digest[Buffer(objects[k].data)],
                                     objects[k].metadata.originalExtension)
  /\ \A j \in CallIds :
       (IsRetrieve(calls[j]) /\ Returned(calls[j]))
         => /\ Buffer(calls[j].data) \in DOMAIN digest
            /\ digest[Buffer(calls[j].data)] = calls[j].storageInfo.contentHash
            /\ Len(calls[j].data) = calls[j].storageInfo.size

\* a storeContent ended in its file.save(), which failed, and a later
\* retrieveContent of the same name found nothing
NoPartialObjectWitness ==
  \E i, j \in CallIds :
    /\ IsStore(calls[i]) /\ Interrupted(calls[i])
    /\ calls[i].error.step = "file.save"
    /\ IsRetrieve(calls[j]) /\ i \in calls[j].preds
    /\ InfoKey(calls[j].storageInfo) = StoreKey(calls[i])
    /\ IsFileNotFound(calls[j])

\* C7 as stated: a storeContent that fails leaves the backend as it was
\* before the call, the bucket included.
AllOrNothingPut ==
  \A i \in CallIds :
    (IsStore(calls[i]) /\ calls[i].pc = "thrown") => ~calls[i].created

\* C7, amended: a storeContent either returns complete storage information
\* whose object is then in the store with the complete bytes, or it fails
\* and has written no object: the step in which a call fails changes no
\* object, and an object is written only in the step in which the call that
\* writes it returns. (The bucket a failed call created stays.)
AllOrNothingObjects ==
  [][ /\ \A i \in CallIds :
           IsStore(calls'[i]) =>
             /\ (~Returned(calls[i]) /\ Returned(calls'[i])) =>
                  LET c == calls'[i]
                      k == InfoKey(c.info)
                  IN  /\ c.info = InfoFor(c.content, c.extension,
                                          c.contentType, c.bucketName)
                      /\ k \in DOMAIN objects'
                      /\ objects'[k].data = Bytes(c)
             /\ (~Finished(calls[i]) /\ calls'[i].pc = "thrown")
                  => objects' = objects
      /\ \A k \in DOMAIN objects' :
           (k \notin DOMAIN objects \/ objects'[k] # objects[k])
             => \E i \in CallIds :
                  /\ IsStore(calls'[i])
                  /\ ~Returned(calls[i]) /\ Returned(calls'[i])
                  /\ StoreKey(calls'[i]) = k
    ]_vars

\* a storeContent created the bucket and then failed in file.save(): the
\* bucket is there, the object is not
AllOrNothingObjectsWitness ==
  \E i \in CallIds :
    /\ IsStore(calls[i]) /\ calls[i].pc = "thrown"
    /\ calls[i].error.step = "file.save"
    /\ calls[i].created
    /\ calls[i].bucketName \in buckets
    /\ StoreKey(calls[i]) \notin DOMAIN objects

\* C8: digest determinism. Every call of generateContentHash with the same
\* content returns the same value, whatever calls came before it, and the
\* value is a non-empty string (64 characters).
DigestDeterminism ==
  \A m, n \in 1..Len(hashCalls) :
    /\ Len(hashCalls[m].result) = 64
    /\ hashCalls[m].content = hashCalls[n].content
         => hashCalls[m].result = hashCalls[n].result

DigestDeterminismWitness ==
  /\ Len(hashCalls) = 2
  /\ hashCalls[1].content = hashCalls[2].content
  /\ Len(hashCalls[1].content.data) > 0
  /\ hashCalls[1].result = hashCalls[2].result

\* C9: content uniqueness. Two contents whose bytes differ have different
\* hashes, and so different file names under every extension.
ContentUniqueness ==
  \A m, n \in 1..Len(hashCalls) :
    ToBuffer(hashCalls[m].content).data # ToBuffer(hashCalls[n].content).data
      => /\ hashCalls[m].result # hashCalls[n].result
         /\ \A e \in Extensions :
              Filename(hashCalls[m].result, e) # Filename(hashCalls[n].result, e)

\* two calls with buffers of the same length that differ in one byte
ContentUniquenessWitness ==
  /\ Len(hashCalls) = 2
  /\ LET a == ToBuffer(hashCalls[1].content).data
         b == ToBuffer(hashCalls[2].content).data
     IN  /\ Len(a) = Len(b)
         /\ Cardinality({p \in 1..Len(a) : a[p] # b[p]}) = 1
  /\ hashCalls[1].result # hashCalls[2].result

\* C10: extension sensitivity. Two storeContent calls with the same bytes,
\* content type and bucket, one with extension "md" and one with "json",
\* return the same contentHash and different filenames; and, no object
\* having been deleted since, the store holds two objects, one under each
\* name, each of which downloads as the bytes stored.
StoredBoth(i, j) ==
  /\ IsStore(calls[i]) /\ Returned(calls[i])
  /\ IsStore(calls[j]) /\ Returned(calls[j])
  /\ Bytes(calls[i]) = Bytes(calls[j])
  /\ calls[i].contentType = calls[j].contentType
  /\ calls[i].bucketName = calls[j].bucketName
  /\ calls[i].extension = "md" /\ calls[j].extension = "json"

ExtensionSensitivity ==
  \A i, j \in CallIds :
    StoredBoth(i, j) =>
      /\ calls[i].info.contentHash = calls[j].info.contentHash
      /\ calls[i].info.filename # calls[j].info.filename
      /\ (calls[i].epoch = deletes /\ calls[j].epoch = deletes) =>
           LET ki == InfoKey(calls[i].info)
               kj == InfoKey(calls[j].info)
           IN  /\ ki # kj
               /\ {ki, kj} \subseteq DOMAIN objects
               /\ Downloaded(objects[ki]) = Bytes(calls[i])
               /\ Downloaded(objects[kj]) = Bytes(calls[j])

ExtensionSensitivityWitness ==
  \E i, j \in CallIds :
    /\ StoredBoth(i, j)
    /\ calls[i].epoch = deletes /\ calls[j].epoch = deletes
    /\ Cardinality(DOMAIN objects) = 2

\* no other storeContent overlaps call i in time
Alone(i) ==
  \A j \in CallIds \ {i} : IsStore(calls[j]) => ~Concurrent(i, j)

\* C11: empty payload. A storeContent of a zero-length payload, no backend
\* request of it failing and no other storeContent overlapping it, returns
\* storage information with size 0 and the SHA-256 of the empty message as
\* contentHash, 64 characters that differ from the hash of every non-empty
\* content; and a retrieveContent of that storage information, no object
\* deleted in between and no request failing, returns zero bytes.
EmptyPayload ==
  \A i \in CallIds :
    ( /\ IsStore(calls[i]) /\ Bytes(calls[i]) = <<>>
      /\ Finished(calls[i]) /\ ~Interrupted(calls[i]) /\ Alone(i) )
      => /\ Returned(calls[i])
         /\ calls[i].info.size = 0
         /\ calls[i].info.contentHash =
              "e3b0c44298fc1c149afbf4c8996fb92427ae41e4649b934ca495991b7852b855"
         /\ Len(calls[i].info.contentHash) = 64
         /\ \A c \in DOMAIN digest :
              ToBuffer(c).data # <<>> => digest[c] # calls[i].info.contentHash
         /\ \A j \in CallIds :
              (RetrievesAfter(i, j) /\ ~Interrupted(calls[j]))
                => Returned(calls[j]) /\ calls[j].data = <<>>

EmptyPayloadWitness ==
  \E i, j \in CallIds :
    /\ IsStore(calls[i]) /\ calls[i].content = Empty /\ Alone(i)
    /\ calls[i].info.size = 0
    /\ RetrievesAfter(i, j)
    /\ Returned(calls[j]) /\ calls[j].data = <<>>

\* C12: contents of the storage information. Every storeContent that
\* returns, returns bucket = the bucket given, path = "cas", filename = the
\* hex SHA-256 of the bytes, ".", the extension, contentHash = that hash,
\* contentType = the type given, and size = the number of bytes (for "é",
\* one character, 2); "# Hello\n" with "md" yields
\* "90f8ec56...17be.md" and size 8.
ReferenceContents ==
  \A i \in CallIds :
    (IsStore(calls[i]) /\ Returned(calls[i])) =>
      LET c == calls[i]
          h == digest[Buffer(Bytes(c))]
      IN  /\ c.info = [bucket |-> c.bucketName, path |-> "cas",
                       filename |-> h \o "." \o c.extension,
                       contentHash |-> h, contentType |-> c.contentType,
                       size |-> Len(Bytes(c))]
          /\ (c.content = Hello /\ c.extension = "md") =>
               /\ c.info.filename =
                    "90f8ec5669cd34183b9b0fdf8b94f5efb4c3672876330f4aa76088c2b4ad17be.md"
               /\ c.info.size = 8
          /\ c.content = EAcute => c.info.size = 2

\* "é" was stored: one UTF-16 code unit, two bytes
ReferenceContentsWitness ==
  \E i \in CallIds :
    /\ IsStore(calls[i]) /\ Returned(calls[i])
    /\ calls[i].content = EAcute
    /\ Len(calls[i].content.data) = 1
    /\ calls[i].info.size = 2

\* C13: generateContentHash and storeContent never diverge. For every
\* content, given as a string or as a Buffer, the contentHash that
\* storeContent returns is what generateContentHash returns for that
\* content as given, and the filename is that hash, ".", the extension; so
\* a string and the Buffer of its bytes get the same contentHash.
DigestAndPutAgree ==
  \A i \in CallIds :
    (IsStore(calls[i]) /\ Returned(calls[i])) =>
      /\ calls[i].info.contentHash = digest[calls[i].content]
      /\ calls[i].info.filename =
           digest[calls[i].content] \o "." \o calls[i].extension
      /\ \A j \in CallIds :
           ( /\ IsStore(calls[j]) /\ Returned(calls[j])
             /\ Bytes(calls[i]) = Bytes(calls[j]) )
             => calls[i].info.contentHash = calls[j].info.contentHash

\* "é" was stored as a string by one call and as a Buffer by another
DigestAndPutAgreeWitness ==
  \E i, j \in CallIds :
    /\ IsStore(calls[i]) /\ Returned(calls[i]) /\ calls[i].content = EAcute
    /\ IsStore(calls[j]) /\ Returned(calls[j])
    /\ calls[j].content = EAcuteBuffer
    /\ calls[i].info.contentHash = digest[EAcute]
    /\ calls[j].info.contentHash = digest[EAcuteBuffer]

\* C14: typed errors of storeContent. A storeContent that fails because the
\* bucket could not be reached or created fails with an error of the kind
\* BackendUnavailable, and one that fails because the write did not
\* complete fails with an error of the distinct kind WriteFailed.
TypedPutErrors ==
  \A i \in CallIds :
    (IsStore(calls[i]) /\ calls[i].pc = "thrown") =>
      /\ calls[i].error.step \in {"bucket.exists", "bucket.create"}
           => calls[i].error.name = "BackendUnavailable"
      /\ calls[i].error.step = "file.save"
           => calls[i].error.name = "WriteFailed"

\* C15: no retry and no fallback. A call sends each of its backend requests
\* (bucket.exists, bucket.create, file.save; file.exists, file.download) at
\* most once; every request that failed ended a call; and a call that threw
\* returned neither storage information nor bytes, as a call that returned
\* threw nothing.
NoRetryNoFallback ==
  /\ \A i \in CallIds :
       LET c == calls[i] IN
         /\ \A m, n \in 1..Len(c.requests) :
              c.requests[m] = c.requests[n] => m = n
         /\ c.requests # <<>> =>
              c.requests[1] = (IF IsStore(c) THEN "bucket.exists"
                                             ELSE "file.exists")
         /\ c.pc = "thrown" =>
              c.info = NoInfo /\ c.data = <<>>
         /\ Returned(c) => c.error = NoError
  /\ Cardinality({i \in CallIds : Interrupted(calls[i])}) = faults

\* a storeContent whose file.save() failed: three requests, one of each
NoRetryNoFallbackWitness ==
  \E i \in CallIds :
    /\ IsStore(calls[i]) /\ calls[i].pc = "thrown"
    /\ calls[i].error.code = 503
    /\ calls[i].requests = <<"bucket.exists", "bucket.create", "file.save">>
    /\ faults = 1

\* the object a retrieveContent of s asks for, from bucket, path and
\* filename alone
RefKey(s) == <<s.bucket, s.path \o "/" \o s.filename>>

\* C16: reconstructed storage information. Storage information read back
\* from its JSON text is the storage information that was written out, so
\* retrieveContent does with it what it does with the original; and what
\* retrieveContent does depends on bucket, path and filename alone: no
\* request failing, each of its steps goes by whether the object named by
\* those three fields is there, and it returns the bytes of that object,
\* whatever the other fields hold.
ReconstructedReferences ==
  [][ /\ \A i \in CallIds :
           (IsStore(calls[i]) /\ Returned(calls[i])) =>
             /\ JSONParse(JSONStringify(calls[i].info)) = calls[i].info
             /\ RefKey(JSONParse(JSONStringify(calls[i].info)))
                  = RefKey(calls[i].info)
      /\ \A j \in CallIds :
           ( /\ IsRetrieve(calls'[j]) /\ calls'[j] # calls[j]
             /\ ~Interrupted(calls'[j]) ) =>
             LET k == RefKey(calls'[j].storageInfo) IN
               IF calls[j].op = "idle"
                 THEN calls'[j].pc = "file.exists"
               ELSE IF calls[j].pc = "file.exists"
                 THEN calls'[j].pc = (IF k \in DOMAIN objects
                                        THEN "file.download" ELSE "thrown")
                 ELSE IF k \in DOMAIN objects
                   THEN /\ Returned(calls'[j])
                        /\ calls'[j].data = objects[k].data
                   ELSE calls'[j].pc = "thrown"
    ]_vars

\* a retrieveContent of storage information that has only the key fields
\* of what a storeContent returned, returned the bytes stored
ReconstructedReferencesWitness ==
  \E i, j \in CallIds :
    /\ IsStore(calls[i]) /\ Returned(calls[i])
    /\ IsRetrieve(calls[j]) /\ Returned(calls[j])
    /\ calls[j].storageInfo = KeyOnly(calls[i].info)
    /\ calls[j].storageInfo # calls[i].info
    /\ calls[i].info.size >= 10
    /\ calls[j].data = Bytes(calls[i])

SameTriple(c, d) ==
  /\ Bytes(c) = Bytes(d)
  /\ c.extension = d.extension
  /\ c.bucketName = d.bucketName

\* C17 as stated: two storeContent calls that return, with the same bytes,
\* extension and bucket, return the same storage information.
PutDeterminism ==
  \A i, j \in CallIds :
    ( /\ IsStore(calls[i]) /\ Returned(calls[i])
      /\ IsStore(calls[j]) /\ Returned(calls[j])
      /\ SameTriple(calls[i], calls[j]) )
      => calls[i].info = calls[j].info

\* C17, amended: two storeContent calls that return, with the same bytes
\* (as a string or as a Buffer), extension and bucket, return storage
\* information with the same bucket, path, filename, contentHash and size,
\* whatever the store held before and whatever ran in between; the
\* contentType returned is the one each call was given, so that calls that
\* also agree on the content type return the same storage information.
PutDeterminismButContentType ==
  \A i, j \in CallIds :
    ( /\ IsStore(calls[i]) /\ Returned(calls[i])
      /\ IsStore(calls[j]) /\ Returned(calls[j])
      /\ SameTriple(calls[i], calls[j]) )
      => /\ [calls[i].info EXCEPT !.contentType = ""]
              = [calls[j].info EXCEPT !.contentType = ""]
         /\ calls[i].info.contentType = calls[i].contentType
         /\ calls[i].contentType = calls[j].contentType
              => calls[i].info = calls[j].info

\* the same bytes stored twice with different content types, the second
\* time onto the object the first had written
PutDeterminismButContentTypeWitness ==
  \E i, j \in CallIds :
    /\ IsStore(calls[i]) /\ Returned(calls[i])
    /\ IsStore(calls[j]) /\ Returned(calls[j])
    /\ SameTriple(calls[i], calls[j])
    /\ calls[i].contentType # calls[j].contentType
    /\ calls[i].info # calls[j].info
    /\ calls[i].added /\ ~calls[j].added

\* C18: identity is content only. Two calls of the same wrapper
\* (storeReadme, storeAnalysisResults or storeLogOutput) with the same
\* content that return, return the same storage information, whatever the
\* package names and versions they were given, and that storage
\* information names one object, which holds the content.
WrapperIdentity ==
  \A i, j \in CallIds :
    ( /\ wrappers[i].name # "" /\ wrappers[i].name = wrappers[j].name
      /\ wrappers[i].argument = wrappers[j].argument
      /\ Returned(calls[i]) /\ Returned(calls[j]) )
      => /\ calls[i].info = calls[j].info
         /\ InfoKey(calls[i].info) = InfoKey(calls[j].info)
         /\ InfoKey(calls[i].info) \in DOMAIN objects
         /\ objects[InfoKey(calls[i].info)].data = Bytes(calls[i])
         /\ objects[InfoKey(calls[i].info)].data = Bytes(calls[j])

\* storeAnalysisResults returned twice for the same results, given two
\* package names, and there is one object
WrapperIdentityWitness ==
  \E i, j \in CallIds :
    /\ wrappers[i].name = "storeAnalysisResults"
    /\ wrappers[j].name = "storeAnalysisResults"
    /\ wrappers[i].argument = wrappers[j].argument
    /\ wrappers[i].packageName # wrappers[j].packageName
    /\ Returned(calls[i]) /\ Returned(calls[j])
    /\ calls[i].info = calls[j].info
    /\ Cardinality(DOMAIN objects) = 1

\* the objects of a bucket that hold the given bytes under the given
\* extension
ObjectsHolding(bucketName, bytes, extension) ==
  {k \in DOMAIN objects :
     /\ k[1] = bucketName
     /\ objects[k].data = bytes
     /\ objects[k].metadata.originalExtension = extension}

\* C19: the content type is not part of the address. Two storeContent calls
\* that return, with the same bytes, extension and bucket and different
\* content types, return storage information with the same bucket, path and
\* filename, which differs in nothing but the contentType; and, no object
\* having been deleted since, the store holds those bytes once, under that
\* name.
ContentTypeNotInAddress ==
  \A i, j \in CallIds :
    ( /\ IsStore(calls[i]) /\ Returned(calls[i])
      /\ IsStore(calls[j]) /\ Returned(calls[j])
      /\ SameTriple(calls[i], calls[j])
      /\ calls[i].contentType # calls[j].contentType )
      => /\ calls[i].info.bucket = calls[j].info.bucket
         /\ calls[i].info.path = calls[j].info.path
         /\ calls[i].info.filename = calls[j].info.filename
         /\ InfoKey(calls[i].info) = InfoKey(calls[j].info)
         /\ \A f \in {"contentHash", "size"} :
              calls[i].info[f] = calls[j].info[f]
         /\ (calls[i].epoch = deletes /\ calls[j].epoch = deletes)
              => ObjectsHolding(calls[i].bucketName, Bytes(calls[i]),
                                calls[i].extension)
                   = {InfoKey(calls[i].info)}

\* the text "é" stored as text/markdown and again as text/plain, nothing
\* deleted since: one object
ContentTypeNotInAddressWitness ==
  \E i, j \in CallIds :
    /\ IsStore(calls[i]) /\ Returned(calls[i])
    /\ IsStore(calls[j]) /\ Returned(calls[j])
    /\ SameTriple(calls[i], calls[j])
    /\ calls[i].contentType = "text/markdown"
    /\ calls[j].contentType = "text/plain"
    /\ calls[i].info.contentType # calls[j].info.contentType
    /\ calls[i].epoch = deletes /\ calls[j].epoch = deletes
    /\ Len(Bytes(calls[i])) = 2
    /\ Cardinality(DOMAIN objects) = 1

\* C20: objects are immutable and self-addressed. In every step of every
\* interleaving of calls, failures and deletions: every
\* object is under a name cas/<h>.<ext> where <h> is the digest of its bytes;
\* the bytes under a name that stays occupied do not change; and a
\* storeContent that writes to an occupied name writes the bytes that are
\* there.
ImmutableSelfAddressed ==
  [][ /\ \A k \in DOMAIN objects' :
           /\ Buffer(objects'[k].data) \in DOMAIN digest
           /\ \E e \in Extensions :
                k[2] = "cas/" \o digest[Buffer(objects'[k].data)] \o "." \o e
      /\ \A k \in DOMAIN objects \cap DOMAIN objects' :
           objects'[k].data = objects[k].data
      /\ \A i \in CallIds :
           ( /\ IsStore(calls[i]) /\ calls[i].pc = "file.save"
             /\ Returned(calls'[i]) )
             => LET k == InfoKey(calls'[i].info)
                IN  /\ k \in DOMAIN objects'
                    /\ objects'[k].data = Bytes(calls[i])
                    /\ k \in DOMAIN objects
                         => objects[k].data = Bytes(calls[i])
    ]_vars

\* two storeContent calls that overlapped wrote the same name, the second
\* onto the object of the first, which holds the bytes of both
ImmutableSelfAddressedWitness ==
  \E i, j \in CallIds :
    /\ IsStore(calls[i]) /\ Returned(calls[i])
    /\ IsStore(calls[j]) /\ Returned(calls[j])
    /\ Concurrent(i, j)
    /\ calls[i].added /\ ~calls[j].added
    /\ InfoKey(calls[i].info) = InfoKey(calls[j].info)
    /\ InfoKey(calls[i].info) \in DOMAIN objects
    /\ objects[InfoKey(calls[i].info)].data = Bytes(calls[j])
    /\ Len(Bytes(calls[j])) > 0

\* a storeContent that returned, nothing having been deleted since
ValidReference(c) ==
  IsStore(c) /\ Returned(c) /\ c.epoch = deletes

\* C21: references stay valid. No step of storeContent or retrieveContent
\* removes an object: in every step that is not a deletion from outside,
\* the names in the store are kept; and for every storeContent that has
\* returned, nothing having been deleted since, the object its storage
\* information names is in the store with the bytes of the call, and a
\* retrieveContent of that storage information that returns in the step
\* returns those bytes.
ReferencesStayValid ==
  [][ /\ deletes' = deletes => DOMAIN objects \subseteq DOMAIN objects'
      /\ \A i \in CallIds :
           ValidReference(calls[i])' =>
             /\ InfoKey(calls'[i].info) \in DOMAIN objects'
             /\ objects'[InfoKey(calls'[i].info)].data = Bytes(calls'[i])
             /\ \A j \in CallIds :
                  ( /\ IsRetrieve(calls[j]) /\ ~Returned(calls[j])
                    /\ Returned(calls'[j])
                    /\ calls[j].storageInfo = calls'[i].info )
                    => calls'[j].data = Bytes(calls'[i])
    ]_vars

\* after a storeContent returned, a second one stored other bytes in the
\* same bucket; the object of the first is there with its bytes
ReferencesStayValidWitness ==
  \E i, j \in CallIds :
    /\ ValidReference(calls[i]) /\ ValidReference(calls[j])
    /\ i \in calls[j].preds
    /\ Bytes(calls[i]) # Bytes(calls[j])
    /\ calls[i].bucketName = calls[j].bucketName
    /\ calls[j].added
    /\ Cardinality(DOMAIN objects) = 2
    /\ objects[InfoKey(calls[i].info)].data = Bytes(calls[i])

\* bucket.exists() answered that the bucket is there: the second request of
\* the call was file.save()
FoundBucket(c) ==
  Len(c.requests) >= 2 /\ c.requests[2] = "file.save"

\* C22: distinct keys are independent. A step of a storeContent call for
\* bytes of digest h, extension e and bucket c changes no object other than
\* the one named cas/<h>.<e> in c, in c or in any other bucket, and adds no
\* bucket other than c; and storeContent calls that overlap, for different
\* bytes and the same bucket, which was there when each call asked, all
\* return unless a request of theirs failed, after which the object of each
\* is in the store with its bytes.
IndependentKeys ==
  [][ /\ \A i \in CallIds :
           (IsStore(calls'[i]) /\ calls'[i] # calls[i]) =>
             LET c   == calls'[i]
                 key == ObjectKey(c.bucketName,
                                  "cas/" \o c.contentHash \o "." \o c.extension)
             IN  /\ \A k \in (DOMAIN objects \cup DOMAIN objects') \ {key} :
                      /\ k \in DOMAIN objects
                      /\ k \in DOMAIN objects'
                      /\ objects'[k] = objects[k]
                 /\ buckets \subseteq buckets'
                 /\ buckets' \ buckets \subseteq {c.bucketName}
      /\ \A i, j \in CallIds :
           ( /\ IsStore(calls'[i]) /\ IsStore(calls'[j])
             /\ Finished(calls'[i]) /\ Finished(calls'[j])
             /\ ~Interrupted(calls'[i]) /\ ~Interrupted(calls'[j])
             /\ FoundBucket(calls'[i]) /\ FoundBucket(calls'[j])
             /\ calls'[i].bucketName = calls'[j].bucketName
             /\ Concurrent(i, j)'
             /\ Bytes(calls'[i]) # Bytes(calls'[j]) )
             => \A n \in {i, j} :
                  /\ Returned(calls'[n])
                  /\ InfoKey(calls'[n].info) \in DOMAIN objects'
                  /\ objects'[InfoKey(calls'[n].info)].data = Bytes(calls'[n])
    ]_vars

\* two storeContent calls that overlapped, for different bytes, in a bucket
\* other than the default that was there: both returned, two objects
IndependentKeysWitness ==
  \E i, j \in CallIds :
    /\ IsStore(calls[i]) /\ Returned(calls[i])
    /\ IsStore(calls[j]) /\ Returned(calls[j])
    /\ Concurrent(i, j)
    /\ Bytes(calls[i]) # Bytes(calls[j])
    /\ calls[i].bucketName = OtherBucketName
    /\ calls[j].bucketName = OtherBucketName
    /\ FoundBucket(calls[i]) /\ FoundBucket(calls[j])
    /\ DOMAIN objects = {InfoKey(calls[i].info), InfoKey(calls[j].info)}
    /\ Cardinality(DOMAIN objects) = 2

\* C23: integrity check on read. A retrieveContent that returns, returns
\* bytes whose digest is the contentHash of the storage information it was
\* given (a call given storage information whose contentHash is not the
\* digest of the object does not return).
IntegrityCheckOnRead ==
  \A j \in CallIds :
    (IsRetrieve(calls[j]) /\ Returned(calls[j]))
      => /\ Buffer(calls[j].data) \in DOMAIN digest
         /\ digest[Buffer(calls[j].data)] = calls[j].storageInfo.contentHash

\* C24: selection of the bucket. A storeContent that returned wrote its
\* object into the bucket it was given, the default bucket when it was
\* called with three arguments, and that bucket is the one in the storage
\* information returned. A retrieveContent reads from the bucket in its
\* storage information: one that returned, returned the object of that
\* name in that bucket; one that follows the storeContent whose storage
\* information it was given returns the bytes stored, unless a request
\* failed; and one given the names of an object of another bucket, in the
\* default bucket, returns only if the default bucket holds an object of
\* that name itself.
ContainerSelection ==
  /\ \A i \in CallIds :
       (IsStore(calls[i]) /\ Returned(calls[i])) =>
         LET c == calls[i]
             b == IF wrappers[i].name = "storeContent/3"
                    THEN DEFAULT_BUCKET_NAME ELSE c.bucketName
             k == ObjectKey(b, "cas/" \o c.filename)
         IN  /\ c.info.bucket = b
             /\ b \in buckets
             /\ k \in DOMAIN objects
             /\ objects[k].data = Bytes(c)
             /\ c.added =>
                  \A o \in BucketChoices \ {b} :
                    ObjectKey(o, "cas/" \o c.filename) \in DOMAIN objects
                      => \E n \in CallIds \ {i} :
                           /\ IsStore(calls[n]) /\ Returned(calls[n])
                           /\ calls[n].bucketName = o
                           /\ calls[n].filename = c.filename
  /\ \A j \in CallIds :
       (IsRetrieve(calls[j]) /\ Returned(calls[j])) =>
         LET s == calls[j].storageInfo
             k == ObjectKey(s.bucket, s.path \o "/" \o s.filename)
         IN  /\ k \in DOMAIN objects
             /\ calls[j].data = objects[k].data
  /\ \A i, j \in CallIds :
       (RetrievesAfter(i, j) /\ ~Interrupted(calls[j]))
         => /\ Returned(calls[j])
            /\ calls[j].data = Bytes(calls[i])

\* bytes were stored in a bucket other than the default; a retrieveContent
\* of the same names in the default bucket, which holds no object, did not
\* find them
ContainerSelectionWitness ==
  \E i, j \in CallIds :
    /\ IsStore(calls[i]) /\ Returned(calls[i])
    /\ calls[i].bucketName = OtherBucketName
    /\ calls[i].info.bucket = OtherBucketName
    /\ IsRetrieve(calls[j]) /\ i \in calls[j].preds
    /\ calls[j].storageInfo = InDefaultBucket(calls[i].info)
    /\ IsFileNotFound(calls[j])
    /\ DOMAIN objects = {InfoKey(calls[i].info)}

\* C25: rendering of a stored reference. For a content that is the JSON
\* text of storage information (contentHash, bucket, path and filename
\* there), ReadmeDisplay takes it for storage information, shows its hash
\* and its location, and calls retrieveContent with it for the bytes it
\* presents; every other content is presented as it is.
RenderingOfReference ==
  \A n \in 1..Len(rendered) :
    LET r == rendered[n]
        isReference ==
          /\ "tokens" \in DOMAIN r.content
          /\ \A name \in {"contentHash", "bucket", "path", "filename"} :
               Truthy(r.content.tokens, name)
    IN  IF isReference
          THEN /\ r.isStorageInfo
               /\ r.location = Shown(Member(r.content.tokens, "bucket")) \o "/"
                    \o Shown(Member(r.content.tokens, "path")) \o "/"
                    \o Shown(Member(r.content.tokens, "filename"))
               /\ Len(r.retrieved) = 1
               /\ KeyOnly(r.retrieved[1])
                    = KeyOnly(JSONParse(r.content.tokens))
          ELSE /\ ~r.isStorageInfo
               /\ r.markdownContent = r.content
               /\ r.retrieved = <<>>

\* C26: the metadata of an object is that of its last writer. The step in
\* which a storeContent returns has written the object, whether or not the
\* name was taken: the object then has the content type of that call; no
\* other step changes an object that stays; the storage information a call
\* returned keeps the content type of its own call; and the bytes, the
\* contentHash and the originalExtension of an object are those of every
\* call that returned for its name.
LastWriterWins ==
  [][ /\ \A i \in CallIds :
           ( /\ IsStore(calls[i]) /\ calls[i].pc = "file.save"
             /\ Returned(calls'[i]) )
             => LET k == InfoKey(calls'[i].info)
                IN  /\ calls'[i].requests[Len(calls'[i].requests)] = "file.save"
                    /\ k \in DOMAIN objects'
                    /\ objects'[k].contentType = calls[i].contentType
      /\ \A k \in DOMAIN objects \cap DOMAIN objects' :
           objects'[k] # objects[k]
             => \E i \in CallIds :
                  /\ IsStore(calls[i]) /\ calls[i].pc = "file.save"
                  /\ Returned(calls'[i])
                  /\ InfoKey(calls'[i].info) = k
      /\ \A i \in CallIds :
           (IsStore(calls'[i]) /\ Returned(calls'[i])) =>
             /\ calls'[i].info.contentType = calls'[i].contentType
             /\ Returned(calls[i]) => calls'[i].info = calls[i].info
             /\ LET k == InfoKey(calls'[i].info)
                IN  k \in DOMAIN objects' =>
                      /\ objects'[k].data = Bytes(calls'[i])
                      /\ objects'[k].metadata.contentHash
                           = calls'[i].info.contentHash
                      /\ objects'[k].metadata.originalExtension
                           = calls'[i].extension
    ]_vars

\* the same bytes and extension stored as text/markdown and then as
\* text/plain: the object is text/plain, the storage information returned
\* first still says text/markdown
LastWriterWinsWitness ==
  \E i, j \in CallIds :
    /\ IsStore(calls[i]) /\ Returned(calls[i])
    /\ IsStore(calls[j]) /\ Returned(calls[j])
    /\ i \in calls[j].preds
    /\ InfoKey(calls[i].info) = InfoKey(calls[j].info)
    /\ calls[i].epoch = deletes /\ calls[j].epoch = deletes
    /\ ~calls[j].added
    /\ calls[i].info.contentType = "text/markdown"
    /\ objects[InfoKey(calls[i].info)].contentType = "text/plain"
    /\ objects[InfoKey(calls[i].info)].data = Bytes(calls[i])

\* C27: retrieveContent is read-only. No step of a retrieveContent call,
\* whether it goes on, returns, throws "File not found" or fails in a
\* request, changes the buckets or the objects: the bucket named in
\* its storage information is not created, and no object is added, removed
\* or changed in its bytes or its metadata.
RetrieveReadOnly ==
  [][ \A j \in CallIds :
        (IsRetrieve(calls'[j]) /\ calls'[j] # calls[j])
          => /\ buckets' = buckets
             /\ objects' = objects
    ]_vars

\* a retrieveContent from a bucket that is not there has thrown "File not
\* found", and the bucket is still not there
RetrieveReadOnlyWitness ==
  \E j \in CallIds :
    /\ IsRetrieve(calls[j])
    /\ IsFileNotFound(calls[j])
    /\ calls[j].storageInfo.bucket \notin buckets
    /\ DOMAIN objects = {}

\* C28: the order of the steps of storeContent. The first request of a call
\* is bucket.exists(), which it awaits; when that is answered it goes on to
\* bucket.create() exactly when the bucket was not there at that moment,
\* and bucket.create() is sent at no other point; it goes on to file.save()
\* only with the bucket there; an object is written only in the step in which a call
\* that was in file.save() returns; and in the state in which a call has
\* returned, its requests were bucket.exists(), bucket.create() if the
\* bucket was missing, and file.save(), in this order, and the bucket and
\* the object of its storage information are there.
StepOrdering ==
  [][ /\ \A i \in CallIds :
           IsStore(calls'[i]) =>
             /\ calls'[i].requests[1] = "bucket.exists"
             /\ calls[i].op = "idle" => calls'[i].pc = "bucket.exists"
             /\ (calls[i].pc # "bucket.create"
                   /\ calls'[i].pc = "bucket.create")
                  => /\ calls[i].pc = "bucket.exists"
                     /\ calls'[i].bucketName \notin buckets
             /\ (calls[i].pc = "bucket.exists" /\ calls'[i].pc = "file.save")
                  => calls'[i].bucketName \in buckets
             /\ (calls[i].pc # "file.save" /\ calls'[i].pc = "file.save")
                  => calls[i].pc \in {"bucket.exists", "bucket.create"}
             /\ (calls[i].pc # "file.save" /\ calls'[i].pc = "file.save")
                  => /\ calls'[i].bucketName \in buckets'
                     /\ calls[i].pc = "bucket.create" => calls'[i].created
             /\ (~Returned(calls[i]) /\ Returned(calls'[i]))
                  => /\ calls[i].pc = "file.save"
                     /\ calls'[i].requests
                          \in {<<"bucket.exists", "file.save">>,
                               <<"bucket.exists", "bucket.create", "file.save">>}
                     /\ calls'[i].created
                          <=> "bucket.create"
                                \in {calls'[i].requests[n] :
                                       n \in 1..Len(calls'[i].requests)}
                     /\ calls'[i].info.bucket \in buckets'
                     /\ InfoKey(calls'[i].info) \in DOMAIN objects'
      /\ \A k \in DOMAIN objects' :
           (k \notin DOMAIN objects \/ objects'[k] # objects[k])
             => \E i \in CallIds :
                  /\ IsStore(calls[i]) /\ calls[i].pc = "file.save"
                  /\ Returned(calls'[i])
                  /\ InfoKey(calls'[i].info) = k
    ]_vars

\* a storeContent that found no bucket has returned after bucket.exists(),
\* bucket.create() and file.save(): the bucket and the object are there
StepOrderingWitness ==
  \E i \in CallIds :
    /\ IsStore(calls[i]) /\ Returned(calls[i])
    /\ calls[i].requests = <<"bucket.exists", "bucket.create", "file.save">>
    /\ calls[i].created
    /\ calls[i].info.bucket \in buckets
    /\ InfoKey(calls[i].info) \in DOMAIN objects
    /\ calls[i].epoch = deletes

\* the object a text of storage information names is in the store, with
\* the given payload as its bytes
PointsToStored(text, payload) ==
  /\ "tokens" \in DOMAIN text
  /\ IsStorageInfo(text.tokens)
  /\ InfoKey(JSONParse(text.tokens)) \in DOMAIN objects'
  /\ objects'[InfoKey(JSONParse(text.tokens))].data = ToBuffer(payload).data

\* C29: references are persisted only after their objects are stored,
\* whether or not calls of saveAnalysisResults overlap. A step that writes
\* to the database is a step of one call, all of whose puts have returned:
\* storeReadme when the README is not empty, storeAnalysisResults and
\* storeLogOutput, in this order; a call ends with what a put threw at an
\* await of a put, in a step that leaves the database as it is, having
\* written nothing to it; the content of a readme record and the results of
\* a verification record written by a step are the JSON texts of the
\* storage information of the call that writes, never the payload; and each
\* of them names an object that is in the store when the record is written,
\* with the payload as its bytes (nothing but these calls acting on the
\* store).
PersistAfterStore ==
  [][ /\ database' # database =>
           \E s \in SaveIds :
             /\ save[s].pc \in {"package.upsert", "packageVersion.upsert",
                                "readme.upsert", "verification.create"}
             /\ save'[s].wrote = save[s].wrote + 1
             /\ \A t \in SaveIds \ {s} : save'[t] = save[t]
             /\ Len(save[s].puts)
                  = (IF Readme(save[s].analysisResult) # <<>> THEN 3 ELSE 2)
             /\ \A n \in 1..Len(save[s].puts) :
                  Returned(calls[save[s].puts[n]])
             /\ \A m, n \in 1..Len(save[s].puts) :
                  m < n => save[s].puts[m] < save[s].puts[n]
             /\ [n \in 1..Len(save[s].puts) |->
                   wrappers[save[s].puts[n]].name]
                  = (IF Readme(save[s].analysisResult) # <<>>
                       THEN <<"storeReadme">> ELSE <<>>)
                      \o <<"storeAnalysisResults", "storeLogOutput">>
             /\ \A r \in database'.readme \ database.readme :
                  /\ r.content # String(Readme(save[s].analysisResult))
                  /\ r.content = Text(JSONStringify(save[s].readmeStorageInfo))
                  /\ PointsToStored(r.content,
                                    String(Readme(save[s].analysisResult)))
             /\ \A v \in database'.verification \ database.verification :
                  /\ v.results.analysisResults
                       = Text(JSONStringify(save[s].resultsStorageInfo))
                  /\ v.results.logOutput
                       = Text(JSONStringify(save[s].logStorageInfo))
                  /\ PointsToStored(
                       v.results.analysisResults,
                       String(JSONStringifyIndented(save[s].analysisResult, 0)))
                  /\ PointsToStored(v.results.logOutput, save[s].logOutput)
      /\ \A s \in SaveIds :
           /\ save'[s].wrote # save[s].wrote =>
                save[s].pc \in {"package.upsert", "packageVersion.upsert",
                                "readme.upsert", "verification.create"}
           /\ (save'[s].pc = "thrown" /\ save[s].pc # "thrown") =>
                /\ save[s].pc \in {"await storeReadme",
                                   "await storeAnalysisResults",
                                   "await storeLogOutput"}
                /\ calls[save[s].call].pc = "thrown"
                /\ database' = database
                /\ save'[s].wrote = 0
    ]_vars

\* two calls for one version overlapped: the second made its put between
\* the first and the second put of the first, and ended when that put
\* failed; the first returned after three puts: a readme record and a
\* verification record hold references, and the three objects are there
PersistAfterStoreWitness ==
  /\ save[1].pc = "returned"
  /\ save[2].pc = "thrown"
  /\ save[2].packageVersion = save[1].packageVersion
  /\ save[1].puts[1] < save[2].call
  /\ save[2].call < save[1].puts[2]
  /\ save[2].wrote = 0
  /\ faults = 1
  /\ Len(save[1].puts) = 3
  /\ save[1].wrote = 4
  /\ Cardinality(database.readme) = 1
  /\ Cardinality(database.verification) = 1
  /\ Cardinality(DOMAIN objects) = 3
  /\ \A r \in database.readme :
       InfoKey(JSONParse(r.content.tokens)) \in DOMAIN objects

====
